---------------------------- MODULE Spec2Model ----------------------------
(***************************************************************************)
(* A model of schnorr_standalone.c: BIP-340 Schnorr signatures over       *)
(* secp256k1 (scalar ring mod n, prime field mod p, group helpers,        *)
(* SHA-256, sign and verify).                                             *)
(*                                                                         *)
(* Machine integers keep their width.  TLC's integers are 32 bits wide, so *)
(* a uint64_t is a little-endian sequence of four 16-bit digits and an     *)
(* unsigned 128-bit value one of eight; every operator below computes on   *)
(* those digits what the C operator computes on the machine word.  The     *)
(* model is the build that has a native 128-bit integer                    *)
(* (__SIZEOF_INT128__ defined) on a little-endian machine.                 *)
(*                                                                         *)
(* A C function f is a pair of definitions.  f_body(pc, s) is statement pc *)
(* of the function applied to the record s of its parameters and locals    *)
(* (a local that C leaves uninitialised and the code writes before         *)
(* reading starts as zero); f(...) is the activation of the function for   *)
(* its arguments, and Exec runs an activation to its end: it yields the    *)
(* record of what the function returns (ret) and stores through its        *)
(* pointers.  A macro works on the locals of the function that uses it.    *)
(***************************************************************************)
EXTENDS Integers, Sequences, FiniteSets, TLC

\* acc is the scalar register the scalar operations work on, last the record
\* of the latest operation (its name, operands, byte buffer and returned
\* flag), nops the number of operations applied so far.
VARIABLES acc, last, nops

vars == <<acc, last, nops>>

(***************************************************************************)
(* Calls.  Call(f, x) is what the operator or the statement named f yields *)
(* for the arguments x; it is defined after the functions.                 *)
(***************************************************************************)
RECURSIVE Call(_, _)

(***************************************************************************)
(* Execution.  A frame is one activation: f names the statements, pc is    *)
(* the next of them, hi the last, s the locals, and to says where the      *)
(* caller keeps what the activation yields: "*" when the activation works  *)
(* on the caller's own locals (a macro, a loop body), and otherwise pairs  *)
(* <<local of the caller, part of the result>>.  A statement yields the    *)
(* locals after it, or Invoke (a call: the callee runs before the next     *)
(* statement), or Return (the function ends and yields v; a v with the     *)
(* field stopped ends the whole run, which then yields v).                 *)
(***************************************************************************)
Frame(f, hi, s) == [f |-> f, pc |-> 1, hi |-> hi, s |-> s, to |-> <<>>]

\* The statements lo..hi of f run on the locals s: a macro body (lo = 1) or a
\* loop whose body f takes the loop index.
Loop(f, lo, hi, s) == [f |-> f, pc |-> lo, hi |-> hi, s |-> s, to |-> "*"]

Invoke(s, to, frame) == [invoke |-> [frame EXCEPT !.to = to], s |-> s]

Return(s, v) == [return |-> v, s |-> s]

\* The locals s after the parts of out that to names are stored.
RECURSIVE StoreOut(_, _, _)
StoreOut(s, to, out) ==
  IF to = <<>> THEN s
  ELSE StoreOut([s EXCEPT ![to[1][1]] = out[to[1][2]]], Tail(to), out)

\* The machine after the top frame of its n frames ends yielding v.
Leave(m, n, v) ==
  IF n = 1 THEN [stack |-> <<>>, out |-> v]
  ELSE [m EXCEPT !.stack =
          Append(SubSeq(m.stack, 1, n - 2),
                 [m.stack[n - 1] EXCEPT !.s = IF m.stack[n].to = "*" THEN v
                                               ELSE StoreOut(@, m.stack[n].to, v)])]

\* The machine m after the statement of the top frame (top, frame n) that
\* results in r.
After(m, n, top, r) ==
  IF "invoke" \in DOMAIN r
  THEN [m EXCEPT !.stack = Append(SubSeq(m.stack, 1, n - 1),
                                  [top EXCEPT !.pc = @ + 1, !.s = r.s])
                             \o <<r.invoke>>]
  ELSE IF "return" \in DOMAIN r
  THEN IF "stopped" \in DOMAIN r.return THEN [stack |-> <<>>, out |-> r.return]
       ELSE Leave(m, n, r.return)
  ELSE [m EXCEPT !.stack = Append(SubSeq(m.stack, 1, n - 1),
                                  [top EXCEPT !.pc = @ + 1, !.s = r])]

\* One step of the machine m, whose stack is not empty: the next statement
\* of the top frame, or the end of that frame.
Tick(m) ==
  LET n == Len(m.stack)
      top == m.stack[n]
  IN IF top.pc > top.hi THEN Leave(m, n, top.s)
     ELSE After(m, n, top, Call(top.f, <<top.pc, top.s>>))

\* Up to 16^k steps of the machine, stopping when no frame is left.
RECURSIVE Ticks(_, _)
Ticks(k, m) ==
  IF m.stack = <<>> THEN m
  ELSE IF k = 0 THEN Tick(m)
  ELSE LET m1 == Ticks(k - 1, m)
           m2 == Ticks(k - 1, m1)
           m3 == Ticks(k - 1, m2)
           m4 == Ticks(k - 1, m3)
           m5 == Ticks(k - 1, m4)
           m6 == Ticks(k - 1, m5)
           m7 == Ticks(k - 1, m6)
           m8 == Ticks(k - 1, m7)
           m9 == Ticks(k - 1, m8)
           m10 == Ticks(k - 1, m9)
           m11 == Ticks(k - 1, m10)
           m12 == Ticks(k - 1, m11)
           m13 == Ticks(k - 1, m12)
           m14 == Ticks(k - 1, m13)
           m15 == Ticks(k - 1, m14)
           m16 == Ticks(k - 1, m15)
       IN <<m1, m2, m3, m4, m5, m6, m7, m8, m9, m10, m11, m12, m13, m14, m15, m16>>[16]

\* What the activation frame yields when it has run to its end.
Exec(frame) == Ticks(6, [stack |-> <<frame>>, out |-> <<>>]).out

(***************************************************************************)
(* Machine words                                                           *)
(***************************************************************************)
Radix == 256 * 256

\* A 64-bit constant written as in the source, most significant 16 bits first.
H64(d3, d2, d1, d0) == <<d0, d1, d2, d3>>

\* (uint64_t)x for a small non-negative int x.
U64(x) == <<x % Radix, x \div Radix, 0, 0>>

\* (uint32_t)x for a 64-bit word x, kept as a 64-bit word.
U32(x) == <<x[1], x[2], 0, 0>>

\* The int a 64-bit word below 2^31 converts to.
ToInt(x) == x[1] + Radix * x[2]

U64Zero == <<0, 0, 0, 0>>
U64Max == <<65535, 65535, 65535, 65535>>

\* The digits of the number whose digit i is d[i] before carrying.
Carry4(d) ==
  LET c1 == d[1]
      c2 == d[2] + (c1 \div Radix)
      c3 == d[3] + (c2 \div Radix)
      c4 == d[4] + (c3 \div Radix)
  IN <<c1 % Radix, c2 % Radix, c3 % Radix, c4 % Radix>>

Carry8(d) ==
  LET c1 == d[1]
      c2 == d[2] + (c1 \div Radix)
      c3 == d[3] + (c2 \div Radix)
      c4 == d[4] + (c3 \div Radix)
      c5 == d[5] + (c4 \div Radix)
      c6 == d[6] + (c5 \div Radix)
      c7 == d[7] + (c6 \div Radix)
      c8 == d[8] + (c7 \div Radix)
  IN <<c1 % Radix, c2 % Radix, c3 % Radix, c4 % Radix,
       c5 % Radix, c6 % Radix, c7 % Radix, c8 % Radix>>

\* uint64_t a + b (wrapping).
U64Add(a, b) == Carry4(<<a[1] + b[1], a[2] + b[2], a[3] + b[3], a[4] + b[4]>>)

\* ~a on a uint64_t.
U64Not(a) == <<65535 - a[1], 65535 - a[2], 65535 - a[3], 65535 - a[4]>>

\* uint64_t a - b (wrapping): a + ~b + 1.
U64Sub(a, b) ==
  Carry4(<<a[1] + (65535 - b[1]) + 1, a[2] + (65535 - b[2]),
           a[3] + (65535 - b[3]), a[4] + (65535 - b[4])>>)

\* a + b on 128-bit words (wrapping).
Add8(a, b) ==
  Carry8(<<a[1] + b[1], a[2] + b[2], a[3] + b[3], a[4] + b[4],
           a[5] + b[5], a[6] + b[6], a[7] + b[7], a[8] + b[8]>>)

\* Comparison of two 64-bit words: -1, 0 or 1.
CmpDigits(a, b) ==
  IF a[4] # b[4] THEN (IF a[4] < b[4] THEN -1 ELSE 1)
  ELSE IF a[3] # b[3] THEN (IF a[3] < b[3] THEN -1 ELSE 1)
  ELSE IF a[2] # b[2] THEN (IF a[2] < b[2] THEN -1 ELSE 1)
  ELSE IF a[1] # b[1] THEN (IF a[1] < b[1] THEN -1 ELSE 1)
  ELSE 0

\* The C values (0 or 1) of a < b, a > b, a >= b and a == b.
U64Lt(a, b) == IF CmpDigits(a, b) < 0 THEN 1 ELSE 0
U64Gt(a, b) == IF CmpDigits(a, b) > 0 THEN 1 ELSE 0
U64Ge(a, b) == IF CmpDigits(a, b) >= 0 THEN 1 ELSE 0
U64Eq(a, b) == IF a = b THEN 1 ELSE 0

\* x | y and x & ~y for ints x and y that are 0 or 1.
IntOr(x, y) == IF x = 1 \/ y = 1 THEN 1 ELSE 0
IntAndNot(x, y) == IF x = 1 /\ y = 0 THEN 1 ELSE 0

\* Column k of the schoolbook product of a 64-bit word a (16-bit digits) by
\* the four 8-bit values in d: the sum of a[i] * d[j] with i + j = k + 1.
MulCol(a, d, k) ==
  LET term(i) == IF k + 1 - i >= 1 /\ k + 1 - i <= 4 THEN a[i] * d[k + 1 - i] ELSE 0
  IN term(1) + term(2) + term(3) + term(4)

\* The digits of the product from its low-byte columns l and high-byte
\* columns h.
MulCarry(l, h) ==
  Carry8(<<l[1] + (h[1] % 256) * 256,
           l[2] + (h[2] % 256) * 256 + (h[1] \div 256),
           l[3] + (h[3] % 256) * 256 + (h[2] \div 256),
           l[4] + (h[4] % 256) * 256 + (h[3] \div 256),
           l[5] + (h[5] % 256) * 256 + (h[4] \div 256),
           l[6] + (h[6] % 256) * 256 + (h[5] \div 256),
           l[7] + (h[7] % 256) * 256 + (h[6] \div 256),
           h[7] \div 256>>)

\* The full 128-bit product of two 64-bit words.  Every digit of b is split
\* into its low byte (bl) and high byte (bh) so that no intermediate value
\* reaches 2^31; h[k] is column k of a * bh and l[k] column k of a * bl.
MulDigits(a, b) ==
  LET bl == <<b[1] % 256, b[2] % 256, b[3] % 256, b[4] % 256>>
      bh == <<b[1] \div 256, b[2] \div 256, b[3] \div 256, b[4] \div 256>>
      h == <<MulCol(a, bh, 1), MulCol(a, bh, 2), MulCol(a, bh, 3), MulCol(a, bh, 4),
             MulCol(a, bh, 5), MulCol(a, bh, 6), MulCol(a, bh, 7)>>
      l == <<MulCol(a, bl, 1), MulCol(a, bl, 2), MulCol(a, bl, 3), MulCol(a, bl, 4),
             MulCol(a, bl, 5), MulCol(a, bl, 6), MulCol(a, bl, 7)>>
  IN MulCarry(l, h)

\* uint64_t a * b (wrapping).
U64Mul(a, b) == SubSeq(MulDigits(a, b), 1, 4)

\* Digit j of a, 0 outside a.
DigitAt(a, j) == IF j >= 1 /\ j <= Len(a) THEN a[j] ELSE 0

\* Digit i of a >> n and of a << n.
ShrDigit(a, n, i) ==
  (DigitAt(a, i + (n \div 16)) \div (2 ^ (n % 16)))
  + (DigitAt(a, i + (n \div 16) + 1) % (2 ^ (n % 16))) * (2 ^ (16 - (n % 16)))
ShlDigit(a, n, i) ==
  (DigitAt(a, i - (n \div 16)) % (2 ^ (16 - (n % 16)))) * (2 ^ (n % 16))
  + (DigitAt(a, i - (n \div 16) - 1) \div (2 ^ (16 - (n % 16))))

\* a >> n and a << n on a uint64_t, 0 <= n < 64.
U64Shr(a, n) == <<ShrDigit(a, n, 1), ShrDigit(a, n, 2), ShrDigit(a, n, 3), ShrDigit(a, n, 4)>>
U64Shl(a, n) == <<ShlDigit(a, n, 1), ShlDigit(a, n, 2), ShlDigit(a, n, 3), ShlDigit(a, n, 4)>>

\* a >> n on a 128-bit word, 0 <= n < 128.
Shr8(a, n) ==
  <<ShrDigit(a, n, 1), ShrDigit(a, n, 2), ShrDigit(a, n, 3), ShrDigit(a, n, 4),
    ShrDigit(a, n, 5), ShrDigit(a, n, 6), ShrDigit(a, n, 7), ShrDigit(a, n, 8)>>

\* Bitwise operators on 4-bit values, tabulated, and on digits and words.
RECURSIVE BitOp(_, _, _, _)
BitOp(f, x, y, n) ==
  IF n = 0 THEN 0
  ELSE f[x % 2][y % 2] + 2 * BitOp(f, x \div 2, y \div 2, n - 1)

AndBit == [x \in 0..1 |-> [y \in 0..1 |-> IF x = 1 /\ y = 1 THEN 1 ELSE 0]]
OrBit == [x \in 0..1 |-> [y \in 0..1 |-> IF x = 1 \/ y = 1 THEN 1 ELSE 0]]
XorBit == [x \in 0..1 |-> [y \in 0..1 |-> IF x # y THEN 1 ELSE 0]]

And4 == [x \in 0..15 |-> [y \in 0..15 |-> BitOp(AndBit, x, y, 4)]]
Or4 == [x \in 0..15 |-> [y \in 0..15 |-> BitOp(OrBit, x, y, 4)]]
Xor4 == [x \in 0..15 |-> [y \in 0..15 |-> BitOp(XorBit, x, y, 4)]]

DigitOp(t, x, y) ==
  t[x % 16][y % 16]
  + 16 * t[(x \div 16) % 16][(y \div 16) % 16]
  + 256 * t[(x \div 256) % 16][(y \div 256) % 16]
  + 4096 * t[x \div 4096][y \div 4096]

U64And(a, b) ==
  <<DigitOp(And4, a[1], b[1]), DigitOp(And4, a[2], b[2]),
    DigitOp(And4, a[3], b[3]), DigitOp(And4, a[4], b[4])>>
U64Or(a, b) ==
  <<DigitOp(Or4, a[1], b[1]), DigitOp(Or4, a[2], b[2]),
    DigitOp(Or4, a[3], b[3]), DigitOp(Or4, a[4], b[4])>>
U64Xor(a, b) ==
  <<DigitOp(Xor4, a[1], b[1]), DigitOp(Xor4, a[2], b[2]),
    DigitOp(Xor4, a[3], b[3]), DigitOp(Xor4, a[4], b[4])>>

(***************************************************************************)
(* Byte order helpers                                                      *)
(***************************************************************************)
\* secp256k1_read_be64(&p[o]): p is a byte array indexed from 0.
secp256k1_read_be64(p, o) ==
  <<p[o + 6] * 256 + p[o + 7], p[o + 4] * 256 + p[o + 5],
    p[o + 2] * 256 + p[o + 3], p[o] * 256 + p[o + 1]>>

\* The eight bytes secp256k1_write_be64 stores, p[0] first.
secp256k1_write_be64(x) ==
  <<x[4] \div 256, x[4] % 256, x[3] \div 256, x[3] % 256,
    x[2] \div 256, x[2] % 256, x[1] \div 256, x[1] % 256>>

\* The array of n bytes indexed from 0 that holds the sequence q.
Bytes(q) == [i \in 0..(Len(q) - 1) |-> q[i + 1]]

(***************************************************************************)
(* 128-bit helpers (the native branch, lines 537-573)                      *)
(***************************************************************************)
secp256k1_u128_from_u64(a) == a \o <<0, 0, 0, 0>>

secp256k1_u128_accum_u64(r, a) == Add8(r, a \o <<0, 0, 0, 0>>)

secp256k1_u128_rshift(r, n) == Shr8(r, n)

secp256k1_u128_to_u64(a) == SubSeq(a, 1, 4)

secp256k1_u128_hi_u64(a) == SubSeq(a, 5, 8)

secp256k1_u128_mul(a, b) == MulDigits(a, b)

secp256k1_u128_accum_mul(r, a, b) == Add8(r, MulDigits(a, b))

(***************************************************************************)
(* Scalars modulo the group order n: four 64-bit limbs d[0..3], least      *)
(* significant first                                                       *)
(***************************************************************************)
SECP256K1_N_0 == H64(\hBFD2, \h5E8C, \hD036, \h4141)
SECP256K1_N_1 == H64(\hBAAE, \hDCE6, \hAF48, \hA03B)
SECP256K1_N_2 == H64(\hFFFF, \hFFFF, \hFFFF, \hFFFE)
SECP256K1_N_3 == H64(\hFFFF, \hFFFF, \hFFFF, \hFFFF)
SECP256K1_N_C_0 == Call("U64Add", <<U64Not(SECP256K1_N_0), U64(1)>>)
SECP256K1_N_C_1 == U64Not(SECP256K1_N_1)
SECP256K1_N_C_2 == 1

\* The array d[0..3] holding the limbs d0, d1, d2, d3.
Limbs(d0, d1, d2, d3) == (0 :> d0) @@ (1 :> d1) @@ (2 :> d2) @@ (3 :> d3)

\* SECP256K1_SCALAR_CONST(0, 0, 0, 0, 0, 0, 0, 1) and (0, ..., 0).
secp256k1_scalar_one == Limbs(U64(1), U64Zero, U64Zero, U64Zero)
secp256k1_scalar_zero == Limbs(U64Zero, U64Zero, U64Zero, U64Zero)

\* secp256k1_scalar_check_overflow with > for >= in the last comparison.
scalar_check_overflow_gt_body(pc, s) ==
  CASE pc = 1 -> [s EXCEPT !.no = IntOr(@, Call("U64Lt", <<s.a[3], SECP256K1_N_3>>))]
    [] pc = 2 -> [s EXCEPT !.no = IntOr(@, Call("U64Lt", <<s.a[2], SECP256K1_N_2>>))]
    [] pc = 3 -> [s EXCEPT !.yes =
                    IntOr(@, IntAndNot(Call("U64Gt", <<s.a[2], SECP256K1_N_2>>), s.no))]
    [] pc = 4 -> [s EXCEPT !.no = IntOr(@, Call("U64Lt", <<s.a[1], SECP256K1_N_1>>))]
    [] pc = 5 -> [s EXCEPT !.yes =
                    IntOr(@, IntAndNot(Call("U64Gt", <<s.a[1], SECP256K1_N_1>>), s.no))]
    [] pc = 6 -> [s EXCEPT !.yes =
                    IntOr(@, IntAndNot(Call("U64Gt", <<s.a[0], SECP256K1_N_0>>), s.no))]
    [] pc = 7 -> Return(s, [ret |-> s.yes])

secp256k1_scalar_check_overflow_body(pc, s) ==
  CASE pc = 1 -> [s EXCEPT !.no = IntOr(@, Call("U64Lt", <<s.a[3], SECP256K1_N_3>>))]
    [] pc = 2 -> [s EXCEPT !.no = IntOr(@, Call("U64Lt", <<s.a[2], SECP256K1_N_2>>))]
    [] pc = 3 -> [s EXCEPT !.yes =
                    IntOr(@, IntAndNot(Call("U64Gt", <<s.a[2], SECP256K1_N_2>>), s.no))]
    [] pc = 4 -> [s EXCEPT !.no = IntOr(@, Call("U64Lt", <<s.a[1], SECP256K1_N_1>>))]
    [] pc = 5 -> [s EXCEPT !.yes =
                    IntOr(@, IntAndNot(Call("U64Gt", <<s.a[1], SECP256K1_N_1>>), s.no))]
    [] pc = 6 -> [s EXCEPT !.yes =
                    IntOr(@, IntAndNot(Call("U64Ge", <<s.a[0], SECP256K1_N_0>>), s.no))]
    [] pc = 7 -> Return(s, [ret |-> s.yes])

secp256k1_scalar_check_overflow(a) ==
  Frame("secp256k1_scalar_check_overflow_body", 7, [a |-> a, yes |-> 0, no |-> 0])

\* secp256k1_scalar_reduce without the subtraction.
scalar_reduce_skipped_body(pc, s) == Return(s, [r |-> s.r, ret |-> s.overflow])

secp256k1_scalar_reduce_body(pc, s) ==
  CASE pc = 1 -> [s EXCEPT !.t = secp256k1_u128_from_u64(s.r[0])]
    [] pc = 2 -> [s EXCEPT !.t = Call("secp256k1_u128_accum_u64",
                    <<@, Call("U64Mul", <<U64(s.overflow), SECP256K1_N_C_0>>)>>)]
    [] pc = 3 -> [s EXCEPT !.r[0] = secp256k1_u128_to_u64(s.t)]
    [] pc = 4 -> [s EXCEPT !.t = Call("secp256k1_u128_rshift", <<@, 64>>)]
    [] pc = 5 -> [s EXCEPT !.t = Call("secp256k1_u128_accum_u64", <<@, s.r[1]>>)]
    [] pc = 6 -> [s EXCEPT !.t = Call("secp256k1_u128_accum_u64",
                    <<@, Call("U64Mul", <<U64(s.overflow), SECP256K1_N_C_1>>)>>)]
    [] pc = 7 -> [s EXCEPT !.r[1] = secp256k1_u128_to_u64(s.t)]
    [] pc = 8 -> [s EXCEPT !.t = Call("secp256k1_u128_rshift", <<@, 64>>)]
    [] pc = 9 -> [s EXCEPT !.t = Call("secp256k1_u128_accum_u64", <<@, s.r[2]>>)]
    \* overflow * SECP256K1_N_C_2 is an unsigned int.
    [] pc = 10 -> [s EXCEPT !.t = Call("secp256k1_u128_accum_u64",
                     <<@, U64(s.overflow * SECP256K1_N_C_2)>>)]
    [] pc = 11 -> [s EXCEPT !.r[2] = secp256k1_u128_to_u64(s.t)]
    [] pc = 12 -> [s EXCEPT !.t = Call("secp256k1_u128_rshift", <<@, 64>>)]
    [] pc = 13 -> [s EXCEPT !.t = Call("secp256k1_u128_accum_u64", <<@, s.r[3]>>)]
    [] pc = 14 -> [s EXCEPT !.r[3] = secp256k1_u128_to_u64(s.t)]
    [] pc = 15 -> Return(s, [r |-> s.r, ret |-> s.overflow])

secp256k1_scalar_reduce(r, overflow) ==
  Frame("secp256k1_scalar_reduce_body", 15,
        [r |-> r, overflow |-> overflow, t |-> secp256k1_u128_from_u64(U64Zero)])

secp256k1_scalar_set_b32_body(pc, s) ==
  CASE pc = 1 -> [s EXCEPT !.r[0] = secp256k1_read_be64(s.b32, 24)]
    [] pc = 2 -> [s EXCEPT !.r[1] = secp256k1_read_be64(s.b32, 16)]
    [] pc = 3 -> [s EXCEPT !.r[2] = secp256k1_read_be64(s.b32, 8)]
    [] pc = 4 -> [s EXCEPT !.r[3] = secp256k1_read_be64(s.b32, 0)]
    \* over = secp256k1_scalar_reduce(r, secp256k1_scalar_check_overflow(r)):
    \* the argument first.
    [] pc = 5 -> Invoke(s, <<<<"over", "ret">>>>, secp256k1_scalar_check_overflow(s.r))
    [] pc = 6 -> Invoke(s, <<<<"r", "r">>, <<"over", "ret">>>>,
                        secp256k1_scalar_reduce(s.r, s.over))
    [] pc = 7 -> [s EXCEPT !.overflow = s.over]
    [] pc = 8 -> Return(s, [r |-> s.r, overflow |-> s.overflow])

\* secp256k1_scalar_set_b32(r, b32, &overflow): yields r and *overflow.
secp256k1_scalar_set_b32(b32) ==
  Frame("secp256k1_scalar_set_b32_body", 8,
        [b32 |-> b32, r |-> secp256k1_scalar_zero, over |-> 0, overflow |-> 0])

\* The 32 bytes secp256k1_scalar_get_b32 writes to bin.
secp256k1_scalar_get_b32(a) ==
  Bytes(secp256k1_write_be64(a[3]) \o secp256k1_write_be64(a[2])
        \o secp256k1_write_be64(a[1]) \o secp256k1_write_be64(a[0]))

secp256k1_scalar_is_zero(a) ==
  Call("U64Eq", <<Call("U64Or", <<Call("U64Or", <<a[0], a[1]>>),
                                  Call("U64Or", <<a[2], a[3]>>)>>), U64Zero>>)

secp256k1_scalar_negate_body(pc, s) ==
  CASE pc = 1 -> [s EXCEPT !.nonzero = Call("U64Mul",
                    <<U64Max, U64(IF Call("secp256k1_scalar_is_zero", <<s.a>>) = 0
                                  THEN 1 ELSE 0)>>)]
    [] pc = 2 -> [s EXCEPT !.t = secp256k1_u128_from_u64(U64Not(s.a[0]))]
    [] pc = 3 -> [s EXCEPT !.t = Call("secp256k1_u128_accum_u64",
                    <<@, Call("U64Add", <<SECP256K1_N_0, U64(1)>>)>>)]
    [] pc = 4 -> [s EXCEPT !.r[0] = Call("U64And", <<secp256k1_u128_to_u64(s.t), s.nonzero>>)]
    [] pc = 5 -> [s EXCEPT !.t = Call("secp256k1_u128_rshift", <<@, 64>>)]
    [] pc = 6 -> [s EXCEPT !.t = Call("secp256k1_u128_accum_u64", <<@, U64Not(s.a[1])>>)]
    [] pc = 7 -> [s EXCEPT !.t = Call("secp256k1_u128_accum_u64", <<@, SECP256K1_N_1>>)]
    [] pc = 8 -> [s EXCEPT !.r[1] = Call("U64And", <<secp256k1_u128_to_u64(s.t), s.nonzero>>)]
    [] pc = 9 -> [s EXCEPT !.t = Call("secp256k1_u128_rshift", <<@, 64>>)]
    [] pc = 10 -> [s EXCEPT !.t = Call("secp256k1_u128_accum_u64", <<@, U64Not(s.a[2])>>)]
    [] pc = 11 -> [s EXCEPT !.t = Call("secp256k1_u128_accum_u64", <<@, SECP256K1_N_2>>)]
    [] pc = 12 -> [s EXCEPT !.r[2] = Call("U64And", <<secp256k1_u128_to_u64(s.t), s.nonzero>>)]
    [] pc = 13 -> [s EXCEPT !.t = Call("secp256k1_u128_rshift", <<@, 64>>)]
    [] pc = 14 -> [s EXCEPT !.t = Call("secp256k1_u128_accum_u64", <<@, U64Not(s.a[3])>>)]
    [] pc = 15 -> [s EXCEPT !.t = Call("secp256k1_u128_accum_u64", <<@, SECP256K1_N_3>>)]
    [] pc = 16 -> [s EXCEPT !.r[3] = Call("U64And", <<secp256k1_u128_to_u64(s.t), s.nonzero>>)]
    [] pc = 17 -> Return(s, [r |-> s.r])

secp256k1_scalar_negate(a) ==
  Frame("secp256k1_scalar_negate_body", 17,
        [a |-> a, r |-> secp256k1_scalar_zero, nonzero |-> U64Zero,
         t |-> secp256k1_u128_from_u64(U64Zero)])

secp256k1_scalar_add_body(pc, s) ==
  CASE pc = 1 -> [s EXCEPT !.t = secp256k1_u128_from_u64(s.a[0])]
    [] pc = 2 -> [s EXCEPT !.t = Call("secp256k1_u128_accum_u64", <<@, s.b[0]>>)]
    [] pc = 3 -> [s EXCEPT !.r[0] = secp256k1_u128_to_u64(s.t)]
    [] pc = 4 -> [s EXCEPT !.t = Call("secp256k1_u128_rshift", <<@, 64>>)]
    [] pc = 5 -> [s EXCEPT !.t = Call("secp256k1_u128_accum_u64", <<@, s.a[1]>>)]
    [] pc = 6 -> [s EXCEPT !.t = Call("secp256k1_u128_accum_u64", <<@, s.b[1]>>)]
    [] pc = 7 -> [s EXCEPT !.r[1] = secp256k1_u128_to_u64(s.t)]
    [] pc = 8 -> [s EXCEPT !.t = Call("secp256k1_u128_rshift", <<@, 64>>)]
    [] pc = 9 -> [s EXCEPT !.t = Call("secp256k1_u128_accum_u64", <<@, s.a[2]>>)]
    [] pc = 10 -> [s EXCEPT !.t = Call("secp256k1_u128_accum_u64", <<@, s.b[2]>>)]
    [] pc = 11 -> [s EXCEPT !.r[2] = secp256k1_u128_to_u64(s.t)]
    [] pc = 12 -> [s EXCEPT !.t = Call("secp256k1_u128_rshift", <<@, 64>>)]
    [] pc = 13 -> [s EXCEPT !.t = Call("secp256k1_u128_accum_u64", <<@, s.a[3]>>)]
    [] pc = 14 -> [s EXCEPT !.t = Call("secp256k1_u128_accum_u64", <<@, s.b[3]>>)]
    [] pc = 15 -> [s EXCEPT !.r[3] = secp256k1_u128_to_u64(s.t)]
    [] pc = 16 -> [s EXCEPT !.t = Call("secp256k1_u128_rshift", <<@, 64>>)]
    \* overflow = secp256k1_u128_to_u64(&t) + secp256k1_scalar_check_overflow(r):
    \* the call first, then the sum, converted to int.
    [] pc = 17 -> Invoke(s, <<<<"overflow", "ret">>>>, secp256k1_scalar_check_overflow(s.r))
    [] pc = 18 -> [s EXCEPT !.overflow =
                     ToInt(Call("U64Add", <<secp256k1_u128_to_u64(s.t), U64(@)>>))]
    [] pc = 19 -> Invoke(s, <<<<"r", "r">>>>, secp256k1_scalar_reduce(s.r, s.overflow))
    [] pc = 20 -> Return(s, [r |-> s.r, ret |-> s.overflow])

secp256k1_scalar_add(a, b) ==
  Frame("secp256k1_scalar_add_body", 20,
        [a |-> a, b |-> b, r |-> secp256k1_scalar_zero, overflow |-> 0,
         t |-> secp256k1_u128_from_u64(U64Zero)])

\* secp256k1_memclear_explicit(r, sizeof(secp256k1_scalar)).
secp256k1_scalar_clear == Limbs(U64Zero, U64Zero, U64Zero, U64Zero)

\* secp256k1_scalar_set_b32_seckey that tests only for zero.
scalar_set_b32_seckey_nonzero_body(pc, s) ==
  CASE pc = 1 -> Invoke(s, <<<<"r", "r">>, <<"overflow", "overflow">>>>,
                        secp256k1_scalar_set_b32(s.bin))
    [] pc = 2 -> Return(s, [r |-> s.r,
                            ret |-> IF Call("secp256k1_scalar_is_zero", <<s.r>>) = 0
                                    THEN 1 ELSE 0])

secp256k1_scalar_set_b32_seckey_body(pc, s) ==
  CASE pc = 1 -> Invoke(s, <<<<"r", "r">>, <<"overflow", "overflow">>>>,
                        secp256k1_scalar_set_b32(s.bin))
    \* (!overflow) & (!secp256k1_scalar_is_zero(r))
    [] pc = 2 -> Return(s, [r |-> s.r,
                            ret |-> IF s.overflow = 0
                                       /\ Call("secp256k1_scalar_is_zero", <<s.r>>) = 0
                                    THEN 1 ELSE 0])

secp256k1_scalar_set_b32_seckey(bin) ==
  Frame("secp256k1_scalar_set_b32_seckey_body", 2,
        [bin |-> bin, r |-> secp256k1_scalar_zero, overflow |-> 0])

secp256k1_scalar_cmov_body(pc, s) ==
  CASE pc = 1 -> [s EXCEPT !.vflag = s.flag]
    [] pc = 2 -> [s EXCEPT !.mask0 = Call("U64Add", <<U64(s.vflag), U64Not(U64Zero)>>)]
    [] pc = 3 -> [s EXCEPT !.mask1 = U64Not(s.mask0)]
    [] pc = 4 -> [s EXCEPT !.r[0] = Call("U64Or",
                    <<Call("U64And", <<@, s.mask0>>), Call("U64And", <<s.a[0], s.mask1>>)>>)]
    [] pc = 5 -> [s EXCEPT !.r[1] = Call("U64Or",
                    <<Call("U64And", <<@, s.mask0>>), Call("U64And", <<s.a[1], s.mask1>>)>>)]
    [] pc = 6 -> [s EXCEPT !.r[2] = Call("U64Or",
                    <<Call("U64And", <<@, s.mask0>>), Call("U64And", <<s.a[2], s.mask1>>)>>)]
    [] pc = 7 -> [s EXCEPT !.r[3] = Call("U64Or",
                    <<Call("U64And", <<@, s.mask0>>), Call("U64And", <<s.a[3], s.mask1>>)>>)]
    [] pc = 8 -> Return(s, [r |-> s.r])

\* secp256k1_scalar_cmov(r, a, flag) for flag in {0, 1}.
secp256k1_scalar_cmov(r, a, flag) ==
  Frame("secp256k1_scalar_cmov_body", 8,
        [r |-> r, a |-> a, flag |-> flag, vflag |-> 0, mask0 |-> U64Zero,
         mask1 |-> U64Zero])

(***************************************************************************)
(* The multiplication macros work on the c0, c1 and c2 of the function     *)
(* that uses them: c0 and c1 are uint64_t, c2 is a uint32_t that counts    *)
(* carries (every extract resets it and a macro adds at most one, so it    *)
(* never wraps).  ma and mb are the macro's arguments, t, tl, th and over   *)
(* its locals.                                                             *)
(***************************************************************************)
muladd_body(pc, s) ==
  CASE pc = 1 -> [s EXCEPT !.t = Call("secp256k1_u128_mul", <<s.ma, s.mb>>)]
    [] pc = 2 -> [s EXCEPT !.th = secp256k1_u128_hi_u64(s.t)]
    [] pc = 3 -> [s EXCEPT !.tl = secp256k1_u128_to_u64(s.t)]
    [] pc = 4 -> [s EXCEPT !.c0 = Call("U64Add", <<@, s.tl>>)]
    [] pc = 5 -> [s EXCEPT !.th = Call("U64Add", <<@, U64(Call("U64Lt", <<s.c0, s.tl>>))>>)]
    [] pc = 6 -> [s EXCEPT !.c1 = Call("U64Add", <<@, s.th>>)]
    [] pc = 7 -> [s EXCEPT !.c2 = @ + Call("U64Lt", <<s.c1, s.th>>)]

muladd(s, a, b) == Loop("muladd_body", 1, 7, [s EXCEPT !.ma = a, !.mb = b])

muladd_fast_body(pc, s) ==
  CASE pc = 1 -> [s EXCEPT !.t = Call("secp256k1_u128_mul", <<s.ma, s.mb>>)]
    [] pc = 2 -> [s EXCEPT !.th = secp256k1_u128_hi_u64(s.t)]
    [] pc = 3 -> [s EXCEPT !.tl = secp256k1_u128_to_u64(s.t)]
    [] pc = 4 -> [s EXCEPT !.c0 = Call("U64Add", <<@, s.tl>>)]
    [] pc = 5 -> [s EXCEPT !.th = Call("U64Add", <<@, U64(Call("U64Lt", <<s.c0, s.tl>>))>>)]
    [] pc = 6 -> [s EXCEPT !.c1 = Call("U64Add", <<@, s.th>>)]

muladd_fast(s, a, b) == Loop("muladd_fast_body", 1, 6, [s EXCEPT !.ma = a, !.mb = b])

sumadd_body(pc, s) ==
  CASE pc = 1 -> [s EXCEPT !.c0 = Call("U64Add", <<@, s.ma>>)]
    [] pc = 2 -> [s EXCEPT !.over = Call("U64Lt", <<s.c0, s.ma>>)]
    [] pc = 3 -> [s EXCEPT !.c1 = Call("U64Add", <<@, U64(s.over)>>)]
    [] pc = 4 -> [s EXCEPT !.c2 = @ + Call("U64Lt", <<s.c1, U64(s.over)>>)]

sumadd(s, a) == Loop("sumadd_body", 1, 4, [s EXCEPT !.ma = a])

sumadd_fast_body(pc, s) ==
  CASE pc = 1 -> [s EXCEPT !.c0 = Call("U64Add", <<@, s.ma>>)]
    [] pc = 2 -> [s EXCEPT !.c1 = Call("U64Add", <<@, U64(Call("U64Lt", <<s.c0, s.ma>>))>>)]

sumadd_fast(s, a) == Loop("sumadd_fast_body", 1, 2, [s EXCEPT !.ma = a])

\* extract(n) that drops c2.
extract_without_c2(s, n) == [s EXCEPT ![n] = s.c0, !.c0 = s.c1, !.c1 = U64Zero, !.c2 = 0]

\* extract(n), n naming the variable that receives c0.
extract(s, n) == [s EXCEPT ![n] = s.c0, !.c0 = s.c1, !.c1 = U64(s.c2), !.c2 = 0]

\* extract_fast without the statement c1 = 0.
extract_fast_c1_kept(s, n) == [s EXCEPT ![n] = s.c0, !.c0 = s.c1]

extract_fast(s, n) == [s EXCEPT ![n] = s.c0, !.c0 = s.c1, !.c1 = U64Zero]

\* The c0, c1, c2 and the macro variables a function starts with.
MacroVars ==
  [c0 |-> U64Zero, c1 |-> U64Zero, c2 |-> 0, ma |-> U64Zero, mb |-> U64Zero,
   t |-> secp256k1_u128_from_u64(U64Zero), tl |-> U64Zero, th |-> U64Zero, over |-> 0]

\* l0..l7 are l8[0..7].
secp256k1_scalar_mul_512_body(pc, s) ==
  CASE pc = 1 -> Invoke(s, "*", muladd_fast(s, s.a[0], s.b[0]))
    [] pc = 2 -> extract_fast(s, "l0")
    [] pc = 3 -> Invoke(s, "*", muladd(s, s.a[0], s.b[1]))
    [] pc = 4 -> Invoke(s, "*", muladd(s, s.a[1], s.b[0]))
    [] pc = 5 -> extract(s, "l1")
    [] pc = 6 -> Invoke(s, "*", muladd(s, s.a[0], s.b[2]))
    [] pc = 7 -> Invoke(s, "*", muladd(s, s.a[1], s.b[1]))
    [] pc = 8 -> Invoke(s, "*", muladd(s, s.a[2], s.b[0]))
    [] pc = 9 -> extract(s, "l2")
    [] pc = 10 -> Invoke(s, "*", muladd(s, s.a[0], s.b[3]))
    [] pc = 11 -> Invoke(s, "*", muladd(s, s.a[1], s.b[2]))
    [] pc = 12 -> Invoke(s, "*", muladd(s, s.a[2], s.b[1]))
    [] pc = 13 -> Invoke(s, "*", muladd(s, s.a[3], s.b[0]))
    [] pc = 14 -> extract(s, "l3")
    [] pc = 15 -> Invoke(s, "*", muladd(s, s.a[1], s.b[3]))
    [] pc = 16 -> Invoke(s, "*", muladd(s, s.a[2], s.b[2]))
    [] pc = 17 -> Invoke(s, "*", muladd(s, s.a[3], s.b[1]))
    [] pc = 18 -> extract(s, "l4")
    [] pc = 19 -> Invoke(s, "*", muladd(s, s.a[2], s.b[3]))
    [] pc = 20 -> Invoke(s, "*", muladd(s, s.a[3], s.b[2]))
    [] pc = 21 -> extract(s, "l5")
    [] pc = 22 -> Invoke(s, "*", muladd_fast(s, s.a[3], s.b[3]))
    [] pc = 23 -> extract_fast(s, "l6")
    [] pc = 24 -> [s EXCEPT !.l7 = s.c0]
    [] pc = 25 -> Return(s, [l8 |-> (0 :> s.l0) @@ (1 :> s.l1) @@ (2 :> s.l2) @@ (3 :> s.l3)
                                    @@ (4 :> s.l4) @@ (5 :> s.l5) @@ (6 :> s.l6)
                                    @@ (7 :> s.l7)])

secp256k1_scalar_mul_512(a, b) ==
  Frame("secp256k1_scalar_mul_512_body", 25,
        MacroVars @@
        [a |-> a, b |-> b, l0 |-> U64Zero, l1 |-> U64Zero, l2 |-> U64Zero,
         l3 |-> U64Zero, l4 |-> U64Zero, l5 |-> U64Zero, l6 |-> U64Zero, l7 |-> U64Zero])

secp256k1_scalar_reduce_512_body(pc, s) ==
  CASE pc = 1 -> [s EXCEPT !.n0 = s.l[4], !.n1 = s.l[5], !.n2 = s.l[6], !.n3 = s.l[7]]
    \* Reduce 512 bits into 385.
    [] pc = 2 -> [s EXCEPT !.c0 = s.l[0], !.c1 = U64Zero, !.c2 = 0]
    [] pc = 3 -> Invoke(s, "*", muladd_fast(s, s.n0, SECP256K1_N_C_0))
    [] pc = 4 -> extract_fast(s, "m0")
    [] pc = 5 -> Invoke(s, "*", sumadd_fast(s, s.l[1]))
    [] pc = 6 -> Invoke(s, "*", muladd(s, s.n1, SECP256K1_N_C_0))
    [] pc = 7 -> Invoke(s, "*", muladd(s, s.n0, SECP256K1_N_C_1))
    [] pc = 8 -> extract(s, "m1")
    [] pc = 9 -> Invoke(s, "*", sumadd(s, s.l[2]))
    [] pc = 10 -> Invoke(s, "*", muladd(s, s.n2, SECP256K1_N_C_0))
    [] pc = 11 -> Invoke(s, "*", muladd(s, s.n1, SECP256K1_N_C_1))
    [] pc = 12 -> Invoke(s, "*", sumadd(s, s.n0))
    [] pc = 13 -> extract(s, "m2")
    [] pc = 14 -> Invoke(s, "*", sumadd(s, s.l[3]))
    [] pc = 15 -> Invoke(s, "*", muladd(s, s.n3, SECP256K1_N_C_0))
    [] pc = 16 -> Invoke(s, "*", muladd(s, s.n2, SECP256K1_N_C_1))
    [] pc = 17 -> Invoke(s, "*", sumadd(s, s.n1))
    [] pc = 18 -> extract(s, "m3")
    [] pc = 19 -> Invoke(s, "*", muladd(s, s.n3, SECP256K1_N_C_1))
    [] pc = 20 -> Invoke(s, "*", sumadd(s, s.n2))
    [] pc = 21 -> extract(s, "m4")
    [] pc = 22 -> Invoke(s, "*", sumadd_fast(s, s.n3))
    [] pc = 23 -> extract_fast(s, "m5")
    [] pc = 24 -> [s EXCEPT !.m6 = U32(s.c0)]
    \* Reduce 385 bits into 258.
    [] pc = 25 -> [s EXCEPT !.c0 = s.m0, !.c1 = U64Zero, !.c2 = 0]
    [] pc = 26 -> Invoke(s, "*", muladd_fast(s, s.m4, SECP256K1_N_C_0))
    [] pc = 27 -> extract_fast(s, "p0")
    [] pc = 28 -> Invoke(s, "*", sumadd_fast(s, s.m1))
    [] pc = 29 -> Invoke(s, "*", muladd(s, s.m5, SECP256K1_N_C_0))
    [] pc = 30 -> Invoke(s, "*", muladd(s, s.m4, SECP256K1_N_C_1))
    [] pc = 31 -> extract(s, "p1")
    [] pc = 32 -> Invoke(s, "*", sumadd(s, s.m2))
    [] pc = 33 -> Invoke(s, "*", muladd(s, s.m6, SECP256K1_N_C_0))
    [] pc = 34 -> Invoke(s, "*", muladd(s, s.m5, SECP256K1_N_C_1))
    [] pc = 35 -> Invoke(s, "*", sumadd(s, s.m4))
    [] pc = 36 -> extract(s, "p2")
    [] pc = 37 -> Invoke(s, "*", sumadd_fast(s, s.m3))
    [] pc = 38 -> Invoke(s, "*", muladd_fast(s, s.m6, SECP256K1_N_C_1))
    [] pc = 39 -> Invoke(s, "*", sumadd_fast(s, s.m5))
    [] pc = 40 -> extract_fast(s, "p3")
    [] pc = 41 -> [s EXCEPT !.p4 = U32(Call("U64Add", <<s.c0, s.m6>>))]
    \* Reduce 258 bits into 256.
    [] pc = 42 -> [s EXCEPT !.c128 = secp256k1_u128_from_u64(s.p0)]
    [] pc = 43 -> [s EXCEPT !.c128 = Call("secp256k1_u128_accum_mul",
                     <<@, SECP256K1_N_C_0, s.p4>>)]
    [] pc = 44 -> [s EXCEPT !.r[0] = secp256k1_u128_to_u64(s.c128)]
    [] pc = 45 -> [s EXCEPT !.c128 = Call("secp256k1_u128_rshift", <<@, 64>>)]
    [] pc = 46 -> [s EXCEPT !.c128 = Call("secp256k1_u128_accum_u64", <<@, s.p1>>)]
    [] pc = 47 -> [s EXCEPT !.c128 = Call("secp256k1_u128_accum_mul",
                     <<@, SECP256K1_N_C_1, s.p4>>)]
    [] pc = 48 -> [s EXCEPT !.r[1] = secp256k1_u128_to_u64(s.c128)]
    [] pc = 49 -> [s EXCEPT !.c128 = Call("secp256k1_u128_rshift", <<@, 64>>)]
    [] pc = 50 -> [s EXCEPT !.c128 = Call("secp256k1_u128_accum_u64", <<@, s.p2>>)]
    [] pc = 51 -> [s EXCEPT !.c128 = Call("secp256k1_u128_accum_u64", <<@, s.p4>>)]
    [] pc = 52 -> [s EXCEPT !.r[2] = secp256k1_u128_to_u64(s.c128)]
    [] pc = 53 -> [s EXCEPT !.c128 = Call("secp256k1_u128_rshift", <<@, 64>>)]
    [] pc = 54 -> [s EXCEPT !.c128 = Call("secp256k1_u128_accum_u64", <<@, s.p3>>)]
    [] pc = 55 -> [s EXCEPT !.r[3] = secp256k1_u128_to_u64(s.c128)]
    [] pc = 56 -> [s EXCEPT !.c = secp256k1_u128_hi_u64(s.c128)]
    \* Final reduction of r: secp256k1_scalar_reduce(r, c +
    \* secp256k1_scalar_check_overflow(r)), the sum converted to unsigned int.
    [] pc = 57 -> Invoke(s, <<<<"chk", "ret">>>>, secp256k1_scalar_check_overflow(s.r))
    [] pc = 58 -> Invoke(s, <<<<"r", "r">>>>,
                         secp256k1_scalar_reduce(s.r,
                           ToInt(U32(Call("U64Add", <<s.c, U64(s.chk)>>)))))
    [] pc = 59 -> Return(s, [r |-> s.r])

secp256k1_scalar_reduce_512(l) ==
  Frame("secp256k1_scalar_reduce_512_body", 59,
        MacroVars @@
        [l |-> l, r |-> secp256k1_scalar_zero,
         n0 |-> U64Zero, n1 |-> U64Zero, n2 |-> U64Zero, n3 |-> U64Zero,
         m0 |-> U64Zero, m1 |-> U64Zero, m2 |-> U64Zero, m3 |-> U64Zero,
         m4 |-> U64Zero, m5 |-> U64Zero, m6 |-> U64Zero,
         p0 |-> U64Zero, p1 |-> U64Zero, p2 |-> U64Zero, p3 |-> U64Zero,
         p4 |-> U64Zero, c128 |-> secp256k1_u128_from_u64(U64Zero),
         c |-> U64Zero, chk |-> 0])

secp256k1_scalar_mul_body(pc, s) ==
  CASE pc = 1 -> Invoke(s, <<<<"l", "l8">>>>, secp256k1_scalar_mul_512(s.a, s.b))
    [] pc = 2 -> Invoke(s, <<<<"r", "r">>>>, secp256k1_scalar_reduce_512(s.l))
    [] pc = 3 -> Return(s, [r |-> s.r])

secp256k1_scalar_mul(a, b) ==
  Frame("secp256k1_scalar_mul_body", 3,
        [a |-> a, b |-> b, r |-> secp256k1_scalar_zero, l |-> <<>>])

(***************************************************************************)
(* Field elements modulo p = 2^256 - 2^32 - 977: five limbs n[0..4] of 52  *)
(* bits (48 in n[4]) when normalised, each held in a uint64_t.             *)
(***************************************************************************)
\* The array n[0..4] holding the limbs n0..n4.
Fe(n0, n1, n2, n3, n4) == (0 :> n0) @@ (1 :> n1) @@ (2 :> n2) @@ (3 :> n3) @@ (4 :> n4)

FeZero == Fe(U64Zero, U64Zero, U64Zero, U64Zero, U64Zero)

\* secp256k1_memclear_explicit(a, sizeof(secp256k1_fe)).
secp256k1_fe_clear == FeZero

\* The limbs secp256k1_fe_set_int(r, a) stores, 0 <= a.
secp256k1_fe_set_int(a) == Fe(U64(a), U64Zero, U64Zero, U64Zero, U64Zero)

secp256k1_fe_is_zero(a) ==
  Call("U64Eq", <<Call("U64Or", <<Call("U64Or", <<Call("U64Or", <<a[0], a[1]>>),
                                                  Call("U64Or", <<a[2], a[3]>>)>>),
                                  a[4]>>), U64Zero>>)

\* a->n[0] & 1.
secp256k1_fe_is_odd(a) == a[0][1] % 2

secp256k1_fe_normalize_var_body(pc, s) ==
  CASE pc = 1 -> [s EXCEPT !.t0 = s.r[0], !.t1 = s.r[1], !.t2 = s.r[2], !.t3 = s.r[3], !.t4 = s.r[4]]
    [] pc = 2 -> [s EXCEPT !.x = Call("U64Shr", <<s.t4, 48>>)]
    [] pc = 3 -> [s EXCEPT !.t4 = Call("U64And", <<@, H64(\h0000, \hFFFF, \hFFFF, \hFFFF)>>)]
    [] pc = 4 -> [s EXCEPT !.t0 = Call("U64Add", <<@, Call("U64Mul", <<s.x, H64(\h0000, \h0001, \h0000, \h03D1)>>)>>)]
    [] pc = 5 -> [s EXCEPT !.t1 = Call("U64Add", <<@, Call("U64Shr", <<s.t0, 52>>)>>)]
    [] pc = 6 -> [s EXCEPT !.t0 = Call("U64And", <<@, H64(\h000F, \hFFFF, \hFFFF, \hFFFF)>>)]
    [] pc = 7 -> [s EXCEPT !.m = s.t1]
    [] pc = 8 -> [s EXCEPT !.t2 = Call("U64Add", <<@, Call("U64Shr", <<s.t1, 52>>)>>)]
    [] pc = 9 -> [s EXCEPT !.t1 = Call("U64And", <<@, H64(\h000F, \hFFFF, \hFFFF, \hFFFF)>>)]
    [] pc = 10 -> [s EXCEPT !.m = Call("U64And", <<@, s.t2>>)]
    [] pc = 11 -> [s EXCEPT !.t3 = Call("U64Add", <<@, Call("U64Shr", <<s.t2, 52>>)>>)]
    [] pc = 12 -> [s EXCEPT !.t2 = Call("U64And", <<@, H64(\h000F, \hFFFF, \hFFFF, \hFFFF)>>)]
    [] pc = 13 -> [s EXCEPT !.m = Call("U64And", <<@, s.t3>>)]
    [] pc = 14 -> [s EXCEPT !.t4 = Call("U64Add", <<@, Call("U64Shr", <<s.t3, 52>>)>>)]
    [] pc = 15 -> [s EXCEPT !.t3 = Call("U64And", <<@, H64(\h000F, \hFFFF, \hFFFF, \hFFFF)>>)]
    [] pc = 16 -> [s EXCEPT !.m = Call("U64And", <<@, s.t4>>)]
    [] pc = 17 -> [s EXCEPT !.x = Call("U64Or", <<Call("U64Shr", <<s.t4, 48>>), 
                        U64(IF Call("U64Eq", <<s.t4, H64(\h0000, \hFFFF, \hFFFF, \hFFFF)>>) = 1
                               /\ Call("U64Eq", <<s.m, H64(\h000F, \hFFFF, \hFFFF, \hFFFF)>>) = 1
                               /\ Call("U64Ge", <<s.t0, H64(\h000F, \hFFFE, \hFFFF, \hFC2F)>>) = 1
                            THEN 1 ELSE 0)>>)]
    \* if (x) { ... }
    [] pc = 18 -> IF s.x = U64Zero THEN s
                  ELSE [s EXCEPT !.t0 = Call("U64Add", <<@, H64(\h0000, \h0001, \h0000, \h03D1)>>)]
    [] pc = 19 -> IF s.x = U64Zero THEN s
                  ELSE [s EXCEPT !.t1 = Call("U64Add", <<@, Call("U64Shr", <<s.t0, 52>>)>>)]
    [] pc = 20 -> IF s.x = U64Zero THEN s
                  ELSE [s EXCEPT !.t0 = Call("U64And", <<@, H64(\h000F, \hFFFF, \hFFFF, \hFFFF)>>)]
    [] pc = 21 -> IF s.x = U64Zero THEN s
                  ELSE [s EXCEPT !.t2 = Call("U64Add", <<@, Call("U64Shr", <<s.t1, 52>>)>>)]
    [] pc = 22 -> IF s.x = U64Zero THEN s
                  ELSE [s EXCEPT !.t1 = Call("U64And", <<@, H64(\h000F, \hFFFF, \hFFFF, \hFFFF)>>)]
    [] pc = 23 -> IF s.x = U64Zero THEN s
                  ELSE [s EXCEPT !.t3 = Call("U64Add", <<@, Call("U64Shr", <<s.t2, 52>>)>>)]
    [] pc = 24 -> IF s.x = U64Zero THEN s
                  ELSE [s EXCEPT !.t2 = Call("U64And", <<@, H64(\h000F, \hFFFF, \hFFFF, \hFFFF)>>)]
    [] pc = 25 -> IF s.x = U64Zero THEN s
                  ELSE [s EXCEPT !.t4 = Call("U64Add", <<@, Call("U64Shr", <<s.t3, 52>>)>>)]
    [] pc = 26 -> IF s.x = U64Zero THEN s
                  ELSE [s EXCEPT !.t3 = Call("U64And", <<@, H64(\h000F, \hFFFF, \hFFFF, \hFFFF)>>)]
    [] pc = 27 -> IF s.x = U64Zero THEN s
                  ELSE [s EXCEPT !.t4 = Call("U64And", <<@, H64(\h0000, \hFFFF, \hFFFF, \hFFFF)>>)]
    [] pc = 28 -> [s EXCEPT !.r = Fe(s.t0, s.t1, s.t2, s.t3, s.t4)]
    [] pc = 29 -> Return(s, [r |-> s.r])

secp256k1_fe_normalize_var(r) ==
  Frame("secp256k1_fe_normalize_var_body", 29,
        [r |-> r, t0 |-> U64Zero, t1 |-> U64Zero, t2 |-> U64Zero, t3 |-> U64Zero,
         t4 |-> U64Zero, m |-> U64Zero, x |-> U64Zero])

secp256k1_fe_normalize_weak_body(pc, s) ==
  CASE pc = 1 -> [s EXCEPT !.t0 = s.r[0], !.t1 = s.r[1], !.t2 = s.r[2], !.t3 = s.r[3], !.t4 = s.r[4]]
    [] pc = 2 -> [s EXCEPT !.x = Call("U64Shr", <<s.t4, 48>>)]
    [] pc = 3 -> [s EXCEPT !.t4 = Call("U64And", <<@, H64(\h0000, \hFFFF, \hFFFF, \hFFFF)>>)]
    [] pc = 4 -> [s EXCEPT !.t0 = Call("U64Add", <<@, Call("U64Mul", <<s.x, H64(\h0000, \h0001, \h0000, \h03D1)>>)>>)]
    [] pc = 5 -> [s EXCEPT !.t1 = Call("U64Add", <<@, Call("U64Shr", <<s.t0, 52>>)>>)]
    [] pc = 6 -> [s EXCEPT !.t0 = Call("U64And", <<@, H64(\h000F, \hFFFF, \hFFFF, \hFFFF)>>)]
    [] pc = 7 -> [s EXCEPT !.t2 = Call("U64Add", <<@, Call("U64Shr", <<s.t1, 52>>)>>)]
    [] pc = 8 -> [s EXCEPT !.t1 = Call("U64And", <<@, H64(\h000F, \hFFFF, \hFFFF, \hFFFF)>>)]
    [] pc = 9 -> [s EXCEPT !.t3 = Call("U64Add", <<@, Call("U64Shr", <<s.t2, 52>>)>>)]
    [] pc = 10 -> [s EXCEPT !.t2 = Call("U64And", <<@, H64(\h000F, \hFFFF, \hFFFF, \hFFFF)>>)]
    [] pc = 11 -> [s EXCEPT !.t4 = Call("U64Add", <<@, Call("U64Shr", <<s.t3, 52>>)>>)]
    [] pc = 12 -> [s EXCEPT !.t3 = Call("U64And", <<@, H64(\h000F, \hFFFF, \hFFFF, \hFFFF)>>)]
    [] pc = 13 -> [s EXCEPT !.r = Fe(s.t0, s.t1, s.t2, s.t3, s.t4)]
    [] pc = 14 -> Return(s, [r |-> s.r])

secp256k1_fe_normalize_weak(r) ==
  Frame("secp256k1_fe_normalize_weak_body", 14,
        [r |-> r, t0 |-> U64Zero, t1 |-> U64Zero, t2 |-> U64Zero, t3 |-> U64Zero,
         t4 |-> U64Zero, x |-> U64Zero])

secp256k1_fe_normalizes_to_zero_body(pc, s) ==
  CASE pc = 1 -> [s EXCEPT !.t0 = s.r[0], !.t1 = s.r[1], !.t2 = s.r[2], !.t3 = s.r[3], !.t4 = s.r[4]]
    [] pc = 2 -> [s EXCEPT !.x = Call("U64Shr", <<s.t4, 48>>)]
    [] pc = 3 -> [s EXCEPT !.t4 = Call("U64And", <<@, H64(\h0000, \hFFFF, \hFFFF, \hFFFF)>>)]
    [] pc = 4 -> [s EXCEPT !.t0 = Call("U64Add", <<@, Call("U64Mul", <<s.x, H64(\h0000, \h0001, \h0000, \h03D1)>>)>>)]
    [] pc = 5 -> [s EXCEPT !.t1 = Call("U64Add", <<@, Call("U64Shr", <<s.t0, 52>>)>>)]
    [] pc = 6 -> [s EXCEPT !.t0 = Call("U64And", <<@, H64(\h000F, \hFFFF, \hFFFF, \hFFFF)>>)]
    [] pc = 7 -> [s EXCEPT !.z0 = s.t0]
    [] pc = 8 -> [s EXCEPT !.z1 = Call("U64Xor", <<s.t0, H64(\h0000, \h0001, \h0000, \h03D0)>>)]
    [] pc = 9 -> [s EXCEPT !.t2 = Call("U64Add", <<@, Call("U64Shr", <<s.t1, 52>>)>>)]
    [] pc = 10 -> [s EXCEPT !.t1 = Call("U64And", <<@, H64(\h000F, \hFFFF, \hFFFF, \hFFFF)>>)]
    [] pc = 11 -> [s EXCEPT !.z0 = Call("U64Or", <<@, s.t1>>)]
    [] pc = 12 -> [s EXCEPT !.z1 = Call("U64And", <<@, s.t1>>)]
    [] pc = 13 -> [s EXCEPT !.t3 = Call("U64Add", <<@, Call("U64Shr", <<s.t2, 52>>)>>)]
    [] pc = 14 -> [s EXCEPT !.t2 = Call("U64And", <<@, H64(\h000F, \hFFFF, \hFFFF, \hFFFF)>>)]
    [] pc = 15 -> [s EXCEPT !.z0 = Call("U64Or", <<@, s.t2>>)]
    [] pc = 16 -> [s EXCEPT !.z1 = Call("U64And", <<@, s.t2>>)]
    [] pc = 17 -> [s EXCEPT !.t4 = Call("U64Add", <<@, Call("U64Shr", <<s.t3, 52>>)>>)]
    [] pc = 18 -> [s EXCEPT !.t3 = Call("U64And", <<@, H64(\h000F, \hFFFF, \hFFFF, \hFFFF)>>)]
    [] pc = 19 -> [s EXCEPT !.z0 = Call("U64Or", <<@, s.t3>>)]
    [] pc = 20 -> [s EXCEPT !.z1 = Call("U64And", <<@, s.t3>>)]
    [] pc = 21 -> [s EXCEPT !.z0 = Call("U64Or", <<@, s.t4>>)]
    [] pc = 22 -> [s EXCEPT !.z1 = Call("U64And", <<@, Call("U64Xor", <<s.t4, H64(\h000F, \h0000, \h0000, \h0000)>>)>>)]
    [] pc = 23 -> Return(s, [ret |-> IntOr(Call("U64Eq", <<s.z0, U64Zero>>), Call("U64Eq", <<s.z1, H64(\h000F, \hFFFF, \hFFFF, \hFFFF)>>))])

secp256k1_fe_normalizes_to_zero(r) ==
  Frame("secp256k1_fe_normalizes_to_zero_body", 23,
        [r |-> r, t0 |-> U64Zero, t1 |-> U64Zero, t2 |-> U64Zero, t3 |-> U64Zero,
         t4 |-> U64Zero, z0 |-> U64Zero, z1 |-> U64Zero, x |-> U64Zero])

\* The limbs secp256k1_fe_negate_unchecked(r, a, m) stores in r.
secp256k1_fe_negate_unchecked(a, m) ==
  Fe(Call("U64Sub", <<Call("U64Mul", <<Call("U64Mul", <<H64(\h000F, \hFFFE, \hFFFF, \hFC2F), U64(2)>>), U64(m + 1)>>), a[0]>>),
     Call("U64Sub", <<Call("U64Mul", <<Call("U64Mul", <<H64(\h000F, \hFFFF, \hFFFF, \hFFFF), U64(2)>>), U64(m + 1)>>), a[1]>>),
     Call("U64Sub", <<Call("U64Mul", <<Call("U64Mul", <<H64(\h000F, \hFFFF, \hFFFF, \hFFFF), U64(2)>>), U64(m + 1)>>), a[2]>>),
     Call("U64Sub", <<Call("U64Mul", <<Call("U64Mul", <<H64(\h000F, \hFFFF, \hFFFF, \hFFFF), U64(2)>>), U64(m + 1)>>), a[3]>>),
     Call("U64Sub", <<Call("U64Mul", <<Call("U64Mul", <<H64(\h0000, \hFFFF, \hFFFF, \hFFFF), U64(2)>>), U64(m + 1)>>), a[4]>>))

secp256k1_fe_negate(a, m) == secp256k1_fe_negate_unchecked(a, m)

\* The limbs of r after secp256k1_fe_add(r, a).
secp256k1_fe_add(r, a) ==
  Fe(Call("U64Add", <<r[0], a[0]>>), Call("U64Add", <<r[1], a[1]>>),
     Call("U64Add", <<r[2], a[2]>>), Call("U64Add", <<r[3], a[3]>>),
     Call("U64Add", <<r[4], a[4]>>))

\* The limbs of r after secp256k1_fe_add_int(r, a), 0 <= a.
secp256k1_fe_add_int(r, a) == [r EXCEPT ![0] = Call("U64Add", <<@, U64(a)>>)]

secp256k1_fe_equal_body(pc, s) ==
  CASE pc = 1 -> [s EXCEPT !.na = Call("secp256k1_fe_negate", <<s.a, 1>>)]
    [] pc = 2 -> [s EXCEPT !.na = Call("secp256k1_fe_add", <<@, s.b>>)]
    [] pc = 3 -> Invoke(s, <<<<"ret", "ret">>>>, secp256k1_fe_normalizes_to_zero(s.na))
    [] pc = 4 -> Return(s, [ret |-> s.ret])

secp256k1_fe_equal(a, b) ==
  Frame("secp256k1_fe_equal_body", 4, [a |-> a, b |-> b, na |-> FeZero, ret |-> 0])

\* a[i] & 0xF and (a[i] >> 4) & 0xF are taken on the byte before it is widened.
secp256k1_fe_set_b32_mod_body(pc, s) ==
  CASE pc = 1 -> [s EXCEPT !.r[0] = 
                   Call("U64Or", <<Call("U64Or", <<Call("U64Or", <<Call("U64Or", <<Call("U64Or", <<Call("U64Or", <<U64(s.a[31]),
                   Call("U64Shl", <<U64(s.a[30]), 8>>)>>),
                   Call("U64Shl", <<U64(s.a[29]), 16>>)>>),
                   Call("U64Shl", <<U64(s.a[28]), 24>>)>>),
                   Call("U64Shl", <<U64(s.a[27]), 32>>)>>),
                   Call("U64Shl", <<U64(s.a[26]), 40>>)>>),
                   Call("U64Shl", <<U64(s.a[25] % 16), 48>>)>>)]
    [] pc = 2 -> [s EXCEPT !.r[1] = 
                   Call("U64Or", <<Call("U64Or", <<Call("U64Or", <<Call("U64Or", <<Call("U64Or", <<Call("U64Or", <<U64((s.a[25] \div 16) % 16),
                   Call("U64Shl", <<U64(s.a[24]), 4>>)>>),
                   Call("U64Shl", <<U64(s.a[23]), 12>>)>>),
                   Call("U64Shl", <<U64(s.a[22]), 20>>)>>),
                   Call("U64Shl", <<U64(s.a[21]), 28>>)>>),
                   Call("U64Shl", <<U64(s.a[20]), 36>>)>>),
                   Call("U64Shl", <<U64(s.a[19]), 44>>)>>)]
    [] pc = 3 -> [s EXCEPT !.r[2] = 
                   Call("U64Or", <<Call("U64Or", <<Call("U64Or", <<Call("U64Or", <<Call("U64Or", <<Call("U64Or", <<U64(s.a[18]),
                   Call("U64Shl", <<U64(s.a[17]), 8>>)>>),
                   Call("U64Shl", <<U64(s.a[16]), 16>>)>>),
                   Call("U64Shl", <<U64(s.a[15]), 24>>)>>),
                   Call("U64Shl", <<U64(s.a[14]), 32>>)>>),
                   Call("U64Shl", <<U64(s.a[13]), 40>>)>>),
                   Call("U64Shl", <<U64(s.a[12] % 16), 48>>)>>)]
    [] pc = 4 -> [s EXCEPT !.r[3] = 
                   Call("U64Or", <<Call("U64Or", <<Call("U64Or", <<Call("U64Or", <<Call("U64Or", <<Call("U64Or", <<U64((s.a[12] \div 16) % 16),
                   Call("U64Shl", <<U64(s.a[11]), 4>>)>>),
                   Call("U64Shl", <<U64(s.a[10]), 12>>)>>),
                   Call("U64Shl", <<U64(s.a[9]), 20>>)>>),
                   Call("U64Shl", <<U64(s.a[8]), 28>>)>>),
                   Call("U64Shl", <<U64(s.a[7]), 36>>)>>),
                   Call("U64Shl", <<U64(s.a[6]), 44>>)>>)]
    [] pc = 5 -> [s EXCEPT !.r[4] = 
                   Call("U64Or", <<Call("U64Or", <<Call("U64Or", <<Call("U64Or", <<Call("U64Or", <<U64(s.a[5]),
                   Call("U64Shl", <<U64(s.a[4]), 8>>)>>),
                   Call("U64Shl", <<U64(s.a[3]), 16>>)>>),
                   Call("U64Shl", <<U64(s.a[2]), 24>>)>>),
                   Call("U64Shl", <<U64(s.a[1]), 32>>)>>),
                   Call("U64Shl", <<U64(s.a[0]), 40>>)>>)]
    [] pc = 6 -> Return(s, [r |-> s.r])

secp256k1_fe_set_b32_mod(a) ==
  Frame("secp256k1_fe_set_b32_mod_body", 6, [a |-> a, r |-> FeZero])

\* secp256k1_fe_set_b32_limit without the comparison with p.
fe_set_b32_limit_unchecked_body(pc, s) ==
  CASE pc = 1 -> Invoke(s, <<<<"r", "r">>>>, secp256k1_fe_set_b32_mod(s.a))
    [] pc = 2 -> Return(s, [r |-> s.r, ret |-> 1])

secp256k1_fe_set_b32_limit_body(pc, s) ==
  CASE pc = 1 -> Invoke(s, <<<<"r", "r">>>>, secp256k1_fe_set_b32_mod(s.a))
    [] pc = 2 -> Return(s, [r |-> s.r,
                            ret |-> IF Call("U64Eq", <<s.r[4], H64(\h0000, \hFFFF, \hFFFF, \hFFFF)>>) = 1
                                       /\ Call("U64Eq", <<Call("U64And", <<Call("U64And", <<s.r[3], s.r[2]>>), s.r[1]>>), H64(\h000F, \hFFFF, \hFFFF, \hFFFF)>>) = 1
                                       /\ Call("U64Ge", <<s.r[0], H64(\h000F, \hFFFE, \hFFFF, \hFC2F)>>) = 1
                                    THEN 0 ELSE 1])

secp256k1_fe_set_b32_limit(a) ==
  Frame("secp256k1_fe_set_b32_limit_body", 2, [a |-> a, r |-> FeZero])

secp256k1_fe_get_b32_body(pc, s) ==
  CASE pc = 1 -> [s EXCEPT !.r[0] = ToInt(Call("U64And", <<Call("U64Shr", <<s.a[4], 40>>), U64(255)>>))]
    [] pc = 2 -> [s EXCEPT !.r[1] = ToInt(Call("U64And", <<Call("U64Shr", <<s.a[4], 32>>), U64(255)>>))]
    [] pc = 3 -> [s EXCEPT !.r[2] = ToInt(Call("U64And", <<Call("U64Shr", <<s.a[4], 24>>), U64(255)>>))]
    [] pc = 4 -> [s EXCEPT !.r[3] = ToInt(Call("U64And", <<Call("U64Shr", <<s.a[4], 16>>), U64(255)>>))]
    [] pc = 5 -> [s EXCEPT !.r[4] = ToInt(Call("U64And", <<Call("U64Shr", <<s.a[4], 8>>), U64(255)>>))]
    [] pc = 6 -> [s EXCEPT !.r[5] = ToInt(Call("U64And", <<s.a[4], U64(255)>>))]
    [] pc = 7 -> [s EXCEPT !.r[6] = ToInt(Call("U64And", <<Call("U64Shr", <<s.a[3], 44>>), U64(255)>>))]
    [] pc = 8 -> [s EXCEPT !.r[7] = ToInt(Call("U64And", <<Call("U64Shr", <<s.a[3], 36>>), U64(255)>>))]
    [] pc = 9 -> [s EXCEPT !.r[8] = ToInt(Call("U64And", <<Call("U64Shr", <<s.a[3], 28>>), U64(255)>>))]
    [] pc = 10 -> [s EXCEPT !.r[9] = ToInt(Call("U64And", <<Call("U64Shr", <<s.a[3], 20>>), U64(255)>>))]
    [] pc = 11 -> [s EXCEPT !.r[10] = ToInt(Call("U64And", <<Call("U64Shr", <<s.a[3], 12>>), U64(255)>>))]
    [] pc = 12 -> [s EXCEPT !.r[11] = ToInt(Call("U64And", <<Call("U64Shr", <<s.a[3], 4>>), U64(255)>>))]
    [] pc = 13 -> [s EXCEPT !.r[12] = ToInt(Call("U64Or", <<Call("U64And", <<Call("U64Shr", <<s.a[2], 48>>), U64(15)>>), Call("U64Shl", <<Call("U64And", <<s.a[3], U64(15)>>), 4>>)>>))]
    [] pc = 14 -> [s EXCEPT !.r[13] = ToInt(Call("U64And", <<Call("U64Shr", <<s.a[2], 40>>), U64(255)>>))]
    [] pc = 15 -> [s EXCEPT !.r[14] = ToInt(Call("U64And", <<Call("U64Shr", <<s.a[2], 32>>), U64(255)>>))]
    [] pc = 16 -> [s EXCEPT !.r[15] = ToInt(Call("U64And", <<Call("U64Shr", <<s.a[2], 24>>), U64(255)>>))]
    [] pc = 17 -> [s EXCEPT !.r[16] = ToInt(Call("U64And", <<Call("U64Shr", <<s.a[2], 16>>), U64(255)>>))]
    [] pc = 18 -> [s EXCEPT !.r[17] = ToInt(Call("U64And", <<Call("U64Shr", <<s.a[2], 8>>), U64(255)>>))]
    [] pc = 19 -> [s EXCEPT !.r[18] = ToInt(Call("U64And", <<s.a[2], U64(255)>>))]
    [] pc = 20 -> [s EXCEPT !.r[19] = ToInt(Call("U64And", <<Call("U64Shr", <<s.a[1], 44>>), U64(255)>>))]
    [] pc = 21 -> [s EXCEPT !.r[20] = ToInt(Call("U64And", <<Call("U64Shr", <<s.a[1], 36>>), U64(255)>>))]
    [] pc = 22 -> [s EXCEPT !.r[21] = ToInt(Call("U64And", <<Call("U64Shr", <<s.a[1], 28>>), U64(255)>>))]
    [] pc = 23 -> [s EXCEPT !.r[22] = ToInt(Call("U64And", <<Call("U64Shr", <<s.a[1], 20>>), U64(255)>>))]
    [] pc = 24 -> [s EXCEPT !.r[23] = ToInt(Call("U64And", <<Call("U64Shr", <<s.a[1], 12>>), U64(255)>>))]
    [] pc = 25 -> [s EXCEPT !.r[24] = ToInt(Call("U64And", <<Call("U64Shr", <<s.a[1], 4>>), U64(255)>>))]
    [] pc = 26 -> [s EXCEPT !.r[25] = ToInt(Call("U64Or", <<Call("U64And", <<Call("U64Shr", <<s.a[0], 48>>), U64(15)>>), Call("U64Shl", <<Call("U64And", <<s.a[1], U64(15)>>), 4>>)>>))]
    [] pc = 27 -> [s EXCEPT !.r[26] = ToInt(Call("U64And", <<Call("U64Shr", <<s.a[0], 40>>), U64(255)>>))]
    [] pc = 28 -> [s EXCEPT !.r[27] = ToInt(Call("U64And", <<Call("U64Shr", <<s.a[0], 32>>), U64(255)>>))]
    [] pc = 29 -> [s EXCEPT !.r[28] = ToInt(Call("U64And", <<Call("U64Shr", <<s.a[0], 24>>), U64(255)>>))]
    [] pc = 30 -> [s EXCEPT !.r[29] = ToInt(Call("U64And", <<Call("U64Shr", <<s.a[0], 16>>), U64(255)>>))]
    [] pc = 31 -> [s EXCEPT !.r[30] = ToInt(Call("U64And", <<Call("U64Shr", <<s.a[0], 8>>), U64(255)>>))]
    [] pc = 32 -> [s EXCEPT !.r[31] = ToInt(Call("U64And", <<s.a[0], U64(255)>>))]
    [] pc = 33 -> Return(s, [r |-> s.r])

secp256k1_fe_get_b32(a) ==
  Frame("secp256k1_fe_get_b32_body", 33, [a |-> a, r |-> [i \in 0..31 |-> 0]])

(***************************************************************************)
(* secp256k1_fe_mul and secp256k1_fe_sqr.  M and R are the constants of    *)
(* the source.  wrap is not a variable of the code: it becomes 1 when a    *)
(* 128-bit accumulation or a 64-bit limb operation loses a carry.          *)
(***************************************************************************)
FE_M == H64(\h000F, \hFFFF, \hFFFF, \hFFFF)
\* R without its shift by four bits: 0x1000003D1.
FE_R_unshifted == H64(\h0000, \h0001, \h0000, \h03D1)

FE_R == H64(\h0000, \h0010, \h0000, \h3D10)

\* a < b on 128-bit words.
U128Lt(a, b) == \E i \in 1..8 : a[i] < b[i] /\ \A j \in (i + 1)..8 : a[j] = b[j]

\* secp256k1_u128_mul(&x, a, b) on the local named x.
FeMul128(s, x, a, b) == [s EXCEPT ![x] = Call("secp256k1_u128_mul", <<a, b>>)]

\* secp256k1_u128_accum_mul(&x, a, b) and secp256k1_u128_accum_u64(&x, a) on
\* the local named x.
FeAccumMul(s, x, a, b) ==
  LET v == Call("secp256k1_u128_accum_mul", <<s[x], a, b>>)
  IN [s EXCEPT ![x] = v, !.wrap = IF U128Lt(v, s[x]) THEN 1 ELSE @]
FeAccumU64(s, x, a) ==
  LET v == Call("secp256k1_u128_accum_u64", <<s[x], a>>)
  IN [s EXCEPT ![x] = v, !.wrap = IF U128Lt(v, s[x]) THEN 1 ELSE @]

\* x *= 2 on the uint64_t local named x.
FeDouble(s, x) ==
  [s EXCEPT ![x] = Call("U64Mul", <<@, U64(2)>>), !.wrap = IF s[x][4] >= 32768 THEN 1 ELSE @]

\* secp256k1_u128_rshift(&x, n) on the local named x.
FeRshift(s, x, n) == [s EXCEPT ![x] = Call("secp256k1_u128_rshift", <<@, n>>)]

secp256k1_fe_mul_body(pc, s) ==
  CASE pc = 1 -> [s EXCEPT !.a0 = s.a[0], !.a1 = s.a[1], !.a2 = s.a[2], !.a3 = s.a[3], !.a4 = s.a[4]]
    [] pc = 2 -> Call("FeMul128", <<s, "d", s.a0, s.b[3]>>)
    [] pc = 3 -> Call("FeAccumMul", <<s, "d", s.a1, s.b[2]>>)
    [] pc = 4 -> Call("FeAccumMul", <<s, "d", s.a2, s.b[1]>>)
    [] pc = 5 -> Call("FeAccumMul", <<s, "d", s.a3, s.b[0]>>)
    [] pc = 6 -> Call("FeMul128", <<s, "c", s.a4, s.b[4]>>)
    [] pc = 7 -> Call("FeAccumMul", <<s, "d", FE_R, secp256k1_u128_to_u64(s.c)>>)
    [] pc = 8 -> Call("FeRshift", <<s, "c", 64>>)
    [] pc = 9 -> [s EXCEPT !.t3 = Call("U64And", <<secp256k1_u128_to_u64(s.d), FE_M>>)]
    [] pc = 10 -> Call("FeRshift", <<s, "d", 52>>)
    [] pc = 11 -> Call("FeAccumMul", <<s, "d", s.a0, s.b[4]>>)
    [] pc = 12 -> Call("FeAccumMul", <<s, "d", s.a1, s.b[3]>>)
    [] pc = 13 -> Call("FeAccumMul", <<s, "d", s.a2, s.b[2]>>)
    [] pc = 14 -> Call("FeAccumMul", <<s, "d", s.a3, s.b[1]>>)
    [] pc = 15 -> Call("FeAccumMul", <<s, "d", s.a4, s.b[0]>>)
    [] pc = 16 -> Call("FeAccumMul", <<s, "d", Call("U64Shl", <<FE_R, 12>>), secp256k1_u128_to_u64(s.c)>>)
    [] pc = 17 -> [s EXCEPT !.t4 = Call("U64And", <<secp256k1_u128_to_u64(s.d), FE_M>>)]
    [] pc = 18 -> Call("FeRshift", <<s, "d", 52>>)
    [] pc = 19 -> [s EXCEPT !.tx = Call("U64Shr", <<s.t4, 48>>)]
    [] pc = 20 -> [s EXCEPT !.t4 = Call("U64And", <<@, Call("U64Shr", <<FE_M, 4>>)>>)]
    [] pc = 21 -> Call("FeMul128", <<s, "c", s.a0, s.b[0]>>)
    [] pc = 22 -> Call("FeAccumMul", <<s, "d", s.a1, s.b[4]>>)
    [] pc = 23 -> Call("FeAccumMul", <<s, "d", s.a2, s.b[3]>>)
    [] pc = 24 -> Call("FeAccumMul", <<s, "d", s.a3, s.b[2]>>)
    [] pc = 25 -> Call("FeAccumMul", <<s, "d", s.a4, s.b[1]>>)
    [] pc = 26 -> [s EXCEPT !.u0 = Call("U64And", <<secp256k1_u128_to_u64(s.d), FE_M>>)]
    [] pc = 27 -> Call("FeRshift", <<s, "d", 52>>)
    [] pc = 28 -> [s EXCEPT !.u0 = Call("U64Or", <<Call("U64Shl", <<@, 4>>), s.tx>>)]
    [] pc = 29 -> Call("FeAccumMul", <<s, "c", s.u0, Call("U64Shr", <<FE_R, 4>>)>>)
    [] pc = 30 -> [s EXCEPT !.r[0] = Call("U64And", <<secp256k1_u128_to_u64(s.c), FE_M>>)]
    [] pc = 31 -> Call("FeRshift", <<s, "c", 52>>)
    [] pc = 32 -> Call("FeAccumMul", <<s, "c", s.a0, s.b[1]>>)
    [] pc = 33 -> Call("FeAccumMul", <<s, "c", s.a1, s.b[0]>>)
    [] pc = 34 -> Call("FeAccumMul", <<s, "d", s.a2, s.b[4]>>)
    [] pc = 35 -> Call("FeAccumMul", <<s, "d", s.a3, s.b[3]>>)
    [] pc = 36 -> Call("FeAccumMul", <<s, "d", s.a4, s.b[2]>>)
    [] pc = 37 -> Call("FeAccumMul", <<s, "c", Call("U64And", <<secp256k1_u128_to_u64(s.d), FE_M>>), FE_R>>)
    [] pc = 38 -> Call("FeRshift", <<s, "d", 52>>)
    [] pc = 39 -> [s EXCEPT !.r[1] = Call("U64And", <<secp256k1_u128_to_u64(s.c), FE_M>>)]
    [] pc = 40 -> Call("FeRshift", <<s, "c", 52>>)
    [] pc = 41 -> Call("FeAccumMul", <<s, "c", s.a0, s.b[2]>>)
    [] pc = 42 -> Call("FeAccumMul", <<s, "c", s.a1, s.b[1]>>)
    [] pc = 43 -> Call("FeAccumMul", <<s, "c", s.a2, s.b[0]>>)
    [] pc = 44 -> Call("FeAccumMul", <<s, "d", s.a3, s.b[4]>>)
    [] pc = 45 -> Call("FeAccumMul", <<s, "d", s.a4, s.b[3]>>)
    [] pc = 46 -> Call("FeAccumMul", <<s, "c", FE_R, secp256k1_u128_to_u64(s.d)>>)
    [] pc = 47 -> Call("FeRshift", <<s, "d", 64>>)
    [] pc = 48 -> [s EXCEPT !.r[2] = Call("U64And", <<secp256k1_u128_to_u64(s.c), FE_M>>)]
    [] pc = 49 -> Call("FeRshift", <<s, "c", 52>>)
    [] pc = 50 -> Call("FeAccumMul", <<s, "c", Call("U64Shl", <<FE_R, 12>>), secp256k1_u128_to_u64(s.d)>>)
    [] pc = 51 -> Call("FeAccumU64", <<s, "c", s.t3>>)
    [] pc = 52 -> [s EXCEPT !.r[3] = Call("U64And", <<secp256k1_u128_to_u64(s.c), FE_M>>)]
    [] pc = 53 -> Call("FeRshift", <<s, "c", 52>>)
    [] pc = 54 -> [s EXCEPT !.r[4] = Call("U64Add", <<secp256k1_u128_to_u64(s.c), s.t4>>),
                            !.wrap = IF Call("U64Lt", <<Call("U64Add", <<secp256k1_u128_to_u64(s.c), s.t4>>), s.t4>>) = 1 THEN 1 ELSE @]
    [] pc = 55 -> Return(s, [r |-> s.r, wrap |-> s.wrap])

\* secp256k1_fe_mul(r, a, b): yields r.
secp256k1_fe_mul(a, b) ==
  Frame("secp256k1_fe_mul_body", 55,
        [a |-> a, b |-> b, a0 |-> U64Zero, a1 |-> U64Zero, a2 |-> U64Zero, a3 |-> U64Zero,
         a4 |-> U64Zero, c |-> secp256k1_u128_from_u64(U64Zero),
         d |-> secp256k1_u128_from_u64(U64Zero), t3 |-> U64Zero, t4 |-> U64Zero,
         tx |-> U64Zero, u0 |-> U64Zero, r |-> FeZero, wrap |-> 0])

secp256k1_fe_sqr_body(pc, s) ==
  CASE pc = 1 -> [s EXCEPT !.a0 = s.a[0], !.a1 = s.a[1], !.a2 = s.a[2], !.a3 = s.a[3], !.a4 = s.a[4]]
    [] pc = 2 -> Call("FeMul128", <<s, "d", Call("U64Mul", <<s.a0, U64(2)>>), s.a3>>)
    [] pc = 3 -> Call("FeAccumMul", <<s, "d", Call("U64Mul", <<s.a1, U64(2)>>), s.a2>>)
    [] pc = 4 -> Call("FeMul128", <<s, "c", s.a4, s.a4>>)
    [] pc = 5 -> Call("FeAccumMul", <<s, "d", FE_R, secp256k1_u128_to_u64(s.c)>>)
    [] pc = 6 -> Call("FeRshift", <<s, "c", 64>>)
    [] pc = 7 -> [s EXCEPT !.t3 = Call("U64And", <<secp256k1_u128_to_u64(s.d), FE_M>>)]
    [] pc = 8 -> Call("FeRshift", <<s, "d", 52>>)
    [] pc = 9 -> Call("FeDouble", <<s, "a4">>)
    [] pc = 10 -> Call("FeAccumMul", <<s, "d", s.a0, s.a4>>)
    [] pc = 11 -> Call("FeAccumMul", <<s, "d", Call("U64Mul", <<s.a1, U64(2)>>), s.a3>>)
    [] pc = 12 -> Call("FeAccumMul", <<s, "d", s.a2, s.a2>>)
    [] pc = 13 -> Call("FeAccumMul", <<s, "d", Call("U64Shl", <<FE_R, 12>>), secp256k1_u128_to_u64(s.c)>>)
    [] pc = 14 -> [s EXCEPT !.t4 = Call("U64And", <<secp256k1_u128_to_u64(s.d), FE_M>>)]
    [] pc = 15 -> Call("FeRshift", <<s, "d", 52>>)
    [] pc = 16 -> [s EXCEPT !.tx = Call("U64Shr", <<s.t4, 48>>)]
    [] pc = 17 -> [s EXCEPT !.t4 = Call("U64And", <<@, Call("U64Shr", <<FE_M, 4>>)>>)]
    [] pc = 18 -> Call("FeMul128", <<s, "c", s.a0, s.a0>>)
    [] pc = 19 -> Call("FeAccumMul", <<s, "d", s.a1, s.a4>>)
    [] pc = 20 -> Call("FeAccumMul", <<s, "d", Call("U64Mul", <<s.a2, U64(2)>>), s.a3>>)
    [] pc = 21 -> [s EXCEPT !.u0 = Call("U64And", <<secp256k1_u128_to_u64(s.d), FE_M>>)]
    [] pc = 22 -> Call("FeRshift", <<s, "d", 52>>)
    [] pc = 23 -> [s EXCEPT !.u0 = Call("U64Or", <<Call("U64Shl", <<@, 4>>), s.tx>>)]
    [] pc = 24 -> Call("FeAccumMul", <<s, "c", s.u0, Call("U64Shr", <<FE_R, 4>>)>>)
    [] pc = 25 -> [s EXCEPT !.r[0] = Call("U64And", <<secp256k1_u128_to_u64(s.c), FE_M>>)]
    [] pc = 26 -> Call("FeRshift", <<s, "c", 52>>)
    [] pc = 27 -> Call("FeDouble", <<s, "a0">>)
    [] pc = 28 -> Call("FeAccumMul", <<s, "c", s.a0, s.a1>>)
    [] pc = 29 -> Call("FeAccumMul", <<s, "d", s.a2, s.a4>>)
    [] pc = 30 -> Call("FeAccumMul", <<s, "d", s.a3, s.a3>>)
    [] pc = 31 -> Call("FeAccumMul", <<s, "c", Call("U64And", <<secp256k1_u128_to_u64(s.d), FE_M>>), FE_R>>)
    [] pc = 32 -> Call("FeRshift", <<s, "d", 52>>)
    [] pc = 33 -> [s EXCEPT !.r[1] = Call("U64And", <<secp256k1_u128_to_u64(s.c), FE_M>>)]
    [] pc = 34 -> Call("FeRshift", <<s, "c", 52>>)
    [] pc = 35 -> Call("FeAccumMul", <<s, "c", s.a0, s.a2>>)
    [] pc = 36 -> Call("FeAccumMul", <<s, "c", s.a1, s.a1>>)
    [] pc = 37 -> Call("FeAccumMul", <<s, "d", s.a3, s.a4>>)
    [] pc = 38 -> Call("FeAccumMul", <<s, "c", FE_R, secp256k1_u128_to_u64(s.d)>>)
    [] pc = 39 -> Call("FeRshift", <<s, "d", 64>>)
    [] pc = 40 -> [s EXCEPT !.r[2] = Call("U64And", <<secp256k1_u128_to_u64(s.c), FE_M>>)]
    [] pc = 41 -> Call("FeRshift", <<s, "c", 52>>)
    [] pc = 42 -> Call("FeAccumMul", <<s, "c", Call("U64Shl", <<FE_R, 12>>), secp256k1_u128_to_u64(s.d)>>)
    [] pc = 43 -> Call("FeAccumU64", <<s, "c", s.t3>>)
    [] pc = 44 -> [s EXCEPT !.r[3] = Call("U64And", <<secp256k1_u128_to_u64(s.c), FE_M>>)]
    [] pc = 45 -> Call("FeRshift", <<s, "c", 52>>)
    [] pc = 46 -> [s EXCEPT !.r[4] = Call("U64Add", <<secp256k1_u128_to_u64(s.c), s.t4>>),
                            !.wrap = IF Call("U64Lt", <<Call("U64Add", <<secp256k1_u128_to_u64(s.c), s.t4>>), s.t4>>) = 1 THEN 1 ELSE @]
    [] pc = 47 -> Return(s, [r |-> s.r, wrap |-> s.wrap])

\* secp256k1_fe_sqr(r, a): yields r.
secp256k1_fe_sqr(a) ==
  Frame("secp256k1_fe_sqr_body", 47,
        [a |-> a, a0 |-> U64Zero, a1 |-> U64Zero, a2 |-> U64Zero, a3 |-> U64Zero,
         a4 |-> U64Zero, c |-> secp256k1_u128_from_u64(U64Zero),
         d |-> secp256k1_u128_from_u64(U64Zero), t3 |-> U64Zero, t4 |-> U64Zero,
         tx |-> U64Zero, u0 |-> U64Zero, r |-> FeZero, wrap |-> 0])

\* for (j = 0; j < n; j++) secp256k1_fe_sqr(&v, &v), v a local of the
\* function that loops: s.v names it.
fe_sqr_loop_body(j, s) == Invoke(s, <<<<s.v, "r">>>>, secp256k1_fe_sqr(s[s.v]))

\* The loop of squarings with one squaring fewer.
SqrTimesShort(s, v, n) == Invoke(s, "*", Loop("fe_sqr_loop_body", 0, n - 2, [s EXCEPT !.v = v]))

SqrTimes(s, v, n) == Invoke(s, "*", Loop("fe_sqr_loop_body", 0, n - 1, [s EXCEPT !.v = v]))

secp256k1_fe_sqrt_body(pc, s) ==
  CASE pc = 1 -> Invoke(s, <<<<"x2", "r">>>>, secp256k1_fe_sqr(s.a))
    [] pc = 2 -> Invoke(s, <<<<"x2", "r">>>>, secp256k1_fe_mul(s.x2, s.a))
    [] pc = 3 -> Invoke(s, <<<<"x3", "r">>>>, secp256k1_fe_sqr(s.x2))
    [] pc = 4 -> Invoke(s, <<<<"x3", "r">>>>, secp256k1_fe_mul(s.x3, s.a))
    [] pc = 5 -> [s EXCEPT !.x6 = s.x3]
    [] pc = 6 -> SqrTimes(s, "x6", 3)
    [] pc = 7 -> Invoke(s, <<<<"x6", "r">>>>, secp256k1_fe_mul(s.x6, s.x3))
    [] pc = 8 -> [s EXCEPT !.x9 = s.x6]
    [] pc = 9 -> SqrTimes(s, "x9", 3)
    [] pc = 10 -> Invoke(s, <<<<"x9", "r">>>>, secp256k1_fe_mul(s.x9, s.x3))
    [] pc = 11 -> [s EXCEPT !.x11 = s.x9]
    [] pc = 12 -> SqrTimes(s, "x11", 2)
    [] pc = 13 -> Invoke(s, <<<<"x11", "r">>>>, secp256k1_fe_mul(s.x11, s.x2))
    [] pc = 14 -> [s EXCEPT !.x22 = s.x11]
    [] pc = 15 -> SqrTimes(s, "x22", 11)
    [] pc = 16 -> Invoke(s, <<<<"x22", "r">>>>, secp256k1_fe_mul(s.x22, s.x11))
    [] pc = 17 -> [s EXCEPT !.x44 = s.x22]
    [] pc = 18 -> SqrTimes(s, "x44", 22)
    [] pc = 19 -> Invoke(s, <<<<"x44", "r">>>>, secp256k1_fe_mul(s.x44, s.x22))
    [] pc = 20 -> [s EXCEPT !.x88 = s.x44]
    [] pc = 21 -> SqrTimes(s, "x88", 44)
    [] pc = 22 -> Invoke(s, <<<<"x88", "r">>>>, secp256k1_fe_mul(s.x88, s.x44))
    [] pc = 23 -> [s EXCEPT !.x176 = s.x88]
    [] pc = 24 -> SqrTimes(s, "x176", 88)
    [] pc = 25 -> Invoke(s, <<<<"x176", "r">>>>, secp256k1_fe_mul(s.x176, s.x88))
    [] pc = 26 -> [s EXCEPT !.x220 = s.x176]
    [] pc = 27 -> SqrTimes(s, "x220", 44)
    [] pc = 28 -> Invoke(s, <<<<"x220", "r">>>>, secp256k1_fe_mul(s.x220, s.x44))
    [] pc = 29 -> [s EXCEPT !.x223 = s.x220]
    [] pc = 30 -> SqrTimes(s, "x223", 3)
    [] pc = 31 -> Invoke(s, <<<<"x223", "r">>>>, secp256k1_fe_mul(s.x223, s.x3))
    [] pc = 32 -> [s EXCEPT !.t1 = s.x223]
    [] pc = 33 -> SqrTimes(s, "t1", 23)
    [] pc = 34 -> Invoke(s, <<<<"t1", "r">>>>, secp256k1_fe_mul(s.t1, s.x22))
    [] pc = 35 -> SqrTimes(s, "t1", 6)
    [] pc = 36 -> Invoke(s, <<<<"t1", "r">>>>, secp256k1_fe_mul(s.t1, s.x2))
    [] pc = 37 -> Invoke(s, <<<<"t1", "r">>>>, secp256k1_fe_sqr(s.t1))
    [] pc = 38 -> Invoke(s, <<<<"r", "r">>>>, secp256k1_fe_sqr(s.t1))
    [] pc = 39 -> Invoke(s, <<<<"t1", "r">>>>, secp256k1_fe_sqr(s.r))
    [] pc = 40 -> Invoke(s, <<<<"ret", "ret">>>>, secp256k1_fe_equal(s.t1, s.a))
    [] pc = 41 -> Return(s, [r |-> s.r, ret |-> s.ret])

\* secp256k1_fe_sqrt(r, a): yields r and the return value.
secp256k1_fe_sqrt(a) ==
  Frame("secp256k1_fe_sqrt_body", 41,
        [a |-> a, ret |-> 0, x2 |-> FeZero, x3 |-> FeZero, x6 |-> FeZero, x9 |-> FeZero,
         x11 |-> FeZero, x22 |-> FeZero, x44 |-> FeZero, x88 |-> FeZero, x176 |-> FeZero,
         x220 |-> FeZero, x223 |-> FeZero, t1 |-> FeZero, r |-> FeZero, v |-> ""])

secp256k1_fe_inv_var_body(pc, s) ==
  CASE pc = 1 -> Invoke(s, <<<<"x2", "r">>>>, secp256k1_fe_sqr(s.x))
    [] pc = 2 -> Invoke(s, <<<<"x3", "r">>>>, secp256k1_fe_mul(s.x2, s.x))
    [] pc = 3 -> [s EXCEPT !.x6 = s.x3]
    [] pc = 4 -> SqrTimes(s, "x6", 3)
    [] pc = 5 -> Invoke(s, <<<<"x6", "r">>>>, secp256k1_fe_mul(s.x6, s.x3))
    [] pc = 6 -> [s EXCEPT !.x9 = s.x6]
    [] pc = 7 -> SqrTimes(s, "x9", 3)
    [] pc = 8 -> Invoke(s, <<<<"x9", "r">>>>, secp256k1_fe_mul(s.x9, s.x3))
    [] pc = 9 -> [s EXCEPT !.x11 = s.x9]
    [] pc = 10 -> SqrTimes(s, "x11", 2)
    [] pc = 11 -> Invoke(s, <<<<"x11", "r">>>>, secp256k1_fe_mul(s.x11, s.x2))
    [] pc = 12 -> [s EXCEPT !.x22 = s.x11]
    [] pc = 13 -> SqrTimes(s, "x22", 11)
    [] pc = 14 -> Invoke(s, <<<<"x22", "r">>>>, secp256k1_fe_mul(s.x22, s.x11))
    [] pc = 15 -> [s EXCEPT !.x44 = s.x22]
    [] pc = 16 -> SqrTimes(s, "x44", 22)
    [] pc = 17 -> Invoke(s, <<<<"x44", "r">>>>, secp256k1_fe_mul(s.x44, s.x22))
    [] pc = 18 -> [s EXCEPT !.x88 = s.x44]
    [] pc = 19 -> SqrTimes(s, "x88", 44)
    [] pc = 20 -> Invoke(s, <<<<"x88", "r">>>>, secp256k1_fe_mul(s.x88, s.x44))
    [] pc = 21 -> [s EXCEPT !.x176 = s.x88]
    [] pc = 22 -> SqrTimes(s, "x176", 88)
    [] pc = 23 -> Invoke(s, <<<<"x176", "r">>>>, secp256k1_fe_mul(s.x176, s.x88))
    [] pc = 24 -> [s EXCEPT !.x220 = s.x176]
    [] pc = 25 -> SqrTimes(s, "x220", 44)
    [] pc = 26 -> Invoke(s, <<<<"x220", "r">>>>, secp256k1_fe_mul(s.x220, s.x44))
    [] pc = 27 -> [s EXCEPT !.x223 = s.x220]
    [] pc = 28 -> SqrTimes(s, "x223", 3)
    [] pc = 29 -> Invoke(s, <<<<"x223", "r">>>>, secp256k1_fe_mul(s.x223, s.x3))
    [] pc = 30 -> [s EXCEPT !.t1 = s.x223]
    [] pc = 31 -> SqrTimes(s, "t1", 23)
    [] pc = 32 -> Invoke(s, <<<<"t1", "r">>>>, secp256k1_fe_mul(s.t1, s.x22))
    [] pc = 33 -> SqrTimes(s, "t1", 5)
    [] pc = 34 -> Invoke(s, <<<<"t1", "r">>>>, secp256k1_fe_mul(s.t1, s.x))
    [] pc = 35 -> SqrTimes(s, "t1", 3)
    [] pc = 36 -> Invoke(s, <<<<"t1", "r">>>>, secp256k1_fe_mul(s.t1, s.x2))
    [] pc = 37 -> SqrTimes(s, "t1", 2)
    [] pc = 38 -> Invoke(s, <<<<"r", "r">>>>, secp256k1_fe_mul(s.t1, s.x))
    [] pc = 39 -> Invoke(s, <<<<"r", "r">>>>, secp256k1_fe_normalize_var(s.r))
    [] pc = 40 -> Return(s, [r |-> s.r])

\* secp256k1_fe_inv_var(r, x): yields r.
secp256k1_fe_inv_var(x) ==
  Frame("secp256k1_fe_inv_var_body", 40,
        [x |-> x, x2 |-> FeZero, x3 |-> FeZero, x6 |-> FeZero, x9 |-> FeZero,
         x11 |-> FeZero, x22 |-> FeZero, x44 |-> FeZero, x88 |-> FeZero, x176 |-> FeZero,
         x220 |-> FeZero, x223 |-> FeZero, t1 |-> FeZero, r |-> FeZero, v |-> ""])

(***************************************************************************)
(* Group elements: x, y and the infinity flag.                             *)
(***************************************************************************)
SECP256K1_B == 7

Ge(x, y, infinity) == [x |-> x, y |-> y, infinity |-> infinity]

\* The element secp256k1_ge_set_infinity and secp256k1_ge_set_xy store in r.
secp256k1_ge_set_infinity == Ge(secp256k1_fe_set_int(0), secp256k1_fe_set_int(0), 1)

secp256k1_ge_is_infinity(a) == a.infinity

secp256k1_ge_set_xy(x, y) == Ge(x, y, 0)

\* r_x, r_y and r_infinity are r->x, r->y and r->infinity.
secp256k1_ge_set_xo_var_body(pc, s) ==
  CASE pc = 1 -> [s EXCEPT !.r_x = s.x]
    [] pc = 2 -> Invoke(s, <<<<"x2", "r">>>>, secp256k1_fe_sqr(s.x))
    [] pc = 3 -> Invoke(s, <<<<"x3", "r">>>>, secp256k1_fe_mul(s.x, s.x2))
    [] pc = 4 -> [s EXCEPT !.r_infinity = 0]
    [] pc = 5 -> [s EXCEPT !.x3 = Call("secp256k1_fe_add_int", <<@, SECP256K1_B>>)]
    [] pc = 6 -> Invoke(s, <<<<"r_y", "r">>, <<"ret", "ret">>>>, secp256k1_fe_sqrt(s.x3))
    [] pc = 7 -> Invoke(s, <<<<"r_y", "r">>>>, secp256k1_fe_normalize_var(s.r_y))
    [] pc = 8 -> IF secp256k1_fe_is_odd(s.r_y) # s.odd
                 THEN [s EXCEPT !.r_y = Call("secp256k1_fe_negate", <<@, 1>>)]
                 ELSE s
    [] pc = 9 -> Return(s, [r |-> Ge(s.r_x, s.r_y, s.r_infinity), ret |-> s.ret])

\* secp256k1_ge_set_xo_var(r, x, odd): yields r and the return value.
secp256k1_ge_set_xo_var(x, odd) ==
  Frame("secp256k1_ge_set_xo_var_body", 9,
        [x |-> x, odd |-> odd, x2 |-> FeZero, x3 |-> FeZero, r_x |-> FeZero,
         r_y |-> FeZero, r_infinity |-> 0, ret |-> 0])

secp256k1_ge_from_storage_body(pc, s) ==
  CASE pc = 1 -> [s EXCEPT !.x[0] = Call("U64And", <<s.a[0], H64(\h000F, \hFFFF, \hFFFF, \hFFFF)>>)]
    [] pc = 2 -> [s EXCEPT !.x[1] = Call("U64Shr", <<s.a[0], 52>>)]
    [] pc = 3 -> [s EXCEPT !.x[2] = Call("U64And", <<s.a[1], H64(\h000F, \hFFFF, \hFFFF, \hFFFF)>>)]
    [] pc = 4 -> [s EXCEPT !.x[3] = Call("U64And", <<Call("U64Shr", <<s.a[1], 40>>), H64(\h000F, \hFFFF, \hFFFF, \hFFFF)>>)]
    [] pc = 5 -> [s EXCEPT !.x[4] = Call("U64Shr", <<s.a[1], 56>>)]
    [] pc = 6 -> [s EXCEPT !.y[0] = Call("U64And", <<s.a[2], H64(\h000F, \hFFFF, \hFFFF, \hFFFF)>>)]
    [] pc = 7 -> [s EXCEPT !.y[1] = Call("U64Shr", <<s.a[2], 52>>)]
    [] pc = 8 -> [s EXCEPT !.y[2] = Call("U64And", <<s.a[3], H64(\h000F, \hFFFF, \hFFFF, \hFFFF)>>)]
    [] pc = 9 -> [s EXCEPT !.y[3] = Call("U64And", <<Call("U64Shr", <<s.a[3], 40>>), H64(\h000F, \hFFFF, \hFFFF, \hFFFF)>>)]
    [] pc = 10 -> [s EXCEPT !.y[4] = Call("U64Shr", <<s.a[3], 56>>)]
    [] pc = 11 -> Return(s, [r |-> secp256k1_ge_set_xy(s.x, s.y)])

\* secp256k1_ge_from_storage(r, a), a the four words of the storage: yields r.
secp256k1_ge_from_storage(a) ==
  Frame("secp256k1_ge_from_storage_body", 11, [a |-> a, x |-> FeZero, y |-> FeZero])

\* The uint64_t that memcpy leaves in a word from the eight bytes p[o..o+7]
\* (little-endian host).
LoadLe64(p, o) ==
  <<p[o] + 256 * p[o + 1], p[o + 2] + 256 * p[o + 3],
    p[o + 4] + 256 * p[o + 5], p[o + 6] + 256 * p[o + 7]>>

\* What a write past the end of a local object does: the bytes land in
\* memory nothing reads again, or the process is stopped (a stack check, a
\* fault on return).
Overruns == {"unnoticed", "stopped"}

\* The statement that stops the process.
Stopped(s) == Return(s, [stopped |-> 1])

secp256k1_ge_from_bytes_body(pc, s) ==
    \* memcpy(&s, buf, 64) into the 32 bytes of s: bytes 0..31 fill s.n[0..3],
    \* bytes 32..63 are written past the end of s.
  CASE pc = 1 -> IF s.overrun = "stopped" THEN Stopped(s)
                 ELSE [s EXCEPT !.s = (0 :> LoadLe64(s.buf, 0)) @@ (1 :> LoadLe64(s.buf, 8))
                                      @@ (2 :> LoadLe64(s.buf, 16)) @@ (3 :> LoadLe64(s.buf, 24))]
    [] pc = 2 -> Invoke(s, <<<<"r", "r">>>>, secp256k1_ge_from_storage(s.s))
    [] pc = 3 -> Return(s, [r |-> s.r])

\* secp256k1_ge_from_bytes(r, buf): yields r.  overrun is what the write
\* past the end of s does.
secp256k1_ge_from_bytes(buf, overrun) ==
  Frame("secp256k1_ge_from_bytes_body", 3,
        [buf |-> buf, overrun |-> overrun, s |-> <<>>, r |-> <<>>])

secp256k1_pubkey_load_body(pc, s) ==
  CASE pc = 1 -> Invoke(s, <<<<"ge", "r">>>>, secp256k1_ge_from_bytes(s.pubkey, s.overrun))
    \* ARG_CHECK(!secp256k1_fe_is_zero(&ge->x))
    [] pc = 2 -> IF secp256k1_fe_is_zero(s.ge.x) = 1 THEN Return(s, [ge |-> s.ge, ret |-> 0]) ELSE s
    [] pc = 3 -> Return(s, [ge |-> s.ge, ret |-> 1])

\* secp256k1_pubkey_load(ctx, ge, pubkey), pubkey the 64 bytes of data:
\* yields ge and the return value.
secp256k1_pubkey_load(pubkey, overrun) ==
  Frame("secp256k1_pubkey_load_body", 3,
        [pubkey |-> pubkey, overrun |-> overrun, ge |-> <<>>])

secp256k1_xonly_pubkey_load(pubkey, overrun) == secp256k1_pubkey_load(pubkey, overrun)

\* ((uint64_t)(a) << 32) | (b) for two 32-bit constants, each written as
\* its high and low 16 bits.
W32(hi, lo) == <<lo, hi, 0, 0>>
GeConstLimb(a, b) == U64Or(U64Shl(a, 32), b)

SECP256K1_GE_CONST(a, b, c, d, e, f, g, h, i, j, k, l, m, n, o, p) ==
  Ge(Fe(GeConstLimb(a, b), GeConstLimb(c, d), GeConstLimb(e, f), GeConstLimb(g, h),
        GeConstLimb(i, j)),
     Fe(GeConstLimb(k, l), GeConstLimb(m, n), GeConstLimb(o, p), U64Zero, U64Zero),
     0)

secp256k1_ge_const_g ==
  SECP256K1_GE_CONST(
    W32(\h79be, \h667e), W32(\hf9dc, \hbbac), W32(\h55a0, \h6295), W32(\hce87, \h0b07),
    W32(\h029b, \hfcdb), W32(\h2dce, \h28d9), W32(\h59f2, \h815b), W32(\h16f8, \h1798),
    W32(\h483a, \hda77), W32(\h26a3, \hc465), W32(\h5da4, \hfbfc), W32(\h0e11, \h08a8),
    W32(\hfd17, \hb448), W32(\ha685, \h5419), W32(\h9c47, \hd08f), W32(\hfb10, \hd4b8))

secp256k1_keypair_seckey_load_body(pc, s) ==
  CASE pc = 1 -> Invoke(s, <<<<"sk", "r">>, <<"ret", "ret">>>>,
                        secp256k1_scalar_set_b32_seckey([i \in 0..31 |-> s.keypair[i]]))
    [] pc = 2 -> Return(s, [sk |-> s.sk, ret |-> s.ret])

\* secp256k1_keypair_seckey_load(ctx, sk, keypair): yields sk and the return
\* value.
secp256k1_keypair_seckey_load(keypair) ==
  Frame("secp256k1_keypair_seckey_load_body", 2, [keypair |-> keypair, sk |-> <<>>, ret |-> 0])

secp256k1_keypair_load_body(pc, s) ==
  CASE pc = 1 -> [s EXCEPT !.pubkey = [i \in 0..63 |-> s.keypair[32 + i]]]
    [] pc = 2 -> Invoke(s, <<<<"pk", "ge">>, <<"ret", "ret">>>>, secp256k1_pubkey_load(s.pubkey, s.overrun))
    \* if (sk != NULL) ret = ret && secp256k1_keypair_seckey_load(ctx, sk, keypair)
    [] pc = 3 -> IF s.sk_null = 0 /\ s.ret # 0
                 THEN Invoke(s, <<<<"sk", "sk">>, <<"ret", "ret">>>>, secp256k1_keypair_seckey_load(s.keypair))
                 ELSE s
    \* if (!ret) { *pk = secp256k1_ge_const_g; if (sk != NULL) *sk = secp256k1_scalar_one; }
    [] pc = 4 -> IF s.ret = 0 THEN [s EXCEPT !.pk = secp256k1_ge_const_g] ELSE s
    [] pc = 5 -> IF s.ret = 0 /\ s.sk_null = 0 THEN [s EXCEPT !.sk = secp256k1_scalar_one] ELSE s
    [] pc = 6 -> Return(s, [sk |-> s.sk, pk |-> s.pk, ret |-> s.ret])

\* secp256k1_keypair_load(ctx, sk, pk, keypair), keypair the 96 bytes of data,
\* sk0 what *sk holds before the call and sk_null = 1 when sk is NULL: yields
\* sk, pk and the return value.
secp256k1_keypair_load(sk0, sk_null, keypair, overrun) ==
  Frame("secp256k1_keypair_load_body", 6,
        [keypair |-> keypair, sk |-> sk0, sk_null |-> sk_null, overrun |-> overrun,
         pubkey |-> <<>>, pk |-> <<>>, ret |-> 0])

(***************************************************************************)
(* SHA-256.  A uint32_t is held as a machine word whose two high digits    *)
(* are 0; the hash object is s (eight words), buf (64 bytes) and bytes.    *)
(***************************************************************************)
\* secp256k1_read_be32(&p[o]), and the four bytes secp256k1_write_be32
\* stores, p[0] first.
secp256k1_read_be32(p, o) == <<p[o + 2] * 256 + p[o + 3], p[o] * 256 + p[o + 1], 0, 0>>
secp256k1_write_be32(x) == <<x[2] \div 256, x[2] % 256, x[1] \div 256, x[1] % 256>>

\* a + b, and (x) >> r | (x) << l, in uint32_t.
Add32(a, b) == U32(U64Add(a, b))
Rot32(x, r, l) == U64Or(U64Shr(x, r), U32(U64Shl(x, l)))

Ch(x, y, z) == U64Xor(z, U64And(x, U64Xor(y, z)))
Maj(x, y, z) == U64Or(U64And(x, y), U64And(z, U64Or(x, y)))
Sigma0(x) == U64Xor(U64Xor(Rot32(x, 2, 30), Rot32(x, 13, 19)), Rot32(x, 22, 10))
Sigma1(x) == U64Xor(U64Xor(Rot32(x, 6, 26), Rot32(x, 11, 21)), Rot32(x, 25, 7))
\* sigma0 with the rotation by 18 made a rotation by 17.
sigma0_rot17(x) == U64Xor(U64Xor(Rot32(x, 7, 25), Rot32(x, 17, 15)), U64Shr(x, 3))

sigma0(x) == U64Xor(U64Xor(Rot32(x, 7, 25), Rot32(x, 18, 14)), U64Shr(x, 3))
sigma1(x) == U64Xor(U64Xor(Rot32(x, 17, 15), Rot32(x, 19, 13)), U64Shr(x, 10))

\* The macro Round on the locals s: a..h name the locals in the macro's
\* order, w names the local that the macro's last argument assigns (the
\* assignment is made before the macro's statements), t1 and t2 are its sums.
RoundStore(s, d, h, t1, t2) == [s EXCEPT ![d] = Add32(@, t1), ![h] = Add32(t1, t2)]
Round(s, a, b, c, d, e, f, g, h, k, w) ==
  RoundStore(s, d, h,
             Add32(Add32(Add32(Add32(s[h], Sigma1(s[e])), Ch(s[e], s[f], s[g])), k), s[w]),
             Add32(Sigma0(s[a]), Maj(s[a], s[b], s[c])))

\* What secp256k1_sha256_initialize stores in hash->s and hash->bytes; it
\* leaves hash->buf as it is.
secp256k1_sha256_initialize ==
  [s |-> Bytes(<<W32(\h6a09, \he667), W32(\hbb67, \hae85), W32(\h3c6e, \hf372),
                 W32(\ha54f, \hf53a), W32(\h510e, \h527f), W32(\h9b05, \h688c),
                 W32(\h1f83, \hd9ab), W32(\h5be0, \hcd19)>>),
   bytes |-> U64Zero]

secp256k1_sha256_transform_body(pc, s) ==
  CASE pc = 1 -> [s EXCEPT !.a = s.s[0], !.b = s.s[1], !.c = s.s[2], !.d = s.s[3],
                           !.e = s.s[4], !.f = s.s[5], !.g = s.s[6], !.h = s.s[7]]
    [] pc = 2 -> Call("Round", <<[s EXCEPT !.w0 = Call("secp256k1_read_be32", <<s.buf, 0>>)],
                                  "a", "b", "c", "d", "e", "f", "g", "h", W32(\h428a, \h2f98), "w0">>)
    [] pc = 3 -> Call("Round", <<[s EXCEPT !.w1 = Call("secp256k1_read_be32", <<s.buf, 4>>)],
                                  "h", "a", "b", "c", "d", "e", "f", "g", W32(\h7137, \h4491), "w1">>)
    [] pc = 4 -> Call("Round", <<[s EXCEPT !.w2 = Call("secp256k1_read_be32", <<s.buf, 8>>)],
                                  "g", "h", "a", "b", "c", "d", "e", "f", W32(\hb5c0, \hfbcf), "w2">>)
    [] pc = 5 -> Call("Round", <<[s EXCEPT !.w3 = Call("secp256k1_read_be32", <<s.buf, 12>>)],
                                  "f", "g", "h", "a", "b", "c", "d", "e", W32(\he9b5, \hdba5), "w3">>)
    [] pc = 6 -> Call("Round", <<[s EXCEPT !.w4 = Call("secp256k1_read_be32", <<s.buf, 16>>)],
                                  "e", "f", "g", "h", "a", "b", "c", "d", W32(\h3956, \hc25b), "w4">>)
    [] pc = 7 -> Call("Round", <<[s EXCEPT !.w5 = Call("secp256k1_read_be32", <<s.buf, 20>>)],
                                  "d", "e", "f", "g", "h", "a", "b", "c", W32(\h59f1, \h11f1), "w5">>)
    [] pc = 8 -> Call("Round", <<[s EXCEPT !.w6 = Call("secp256k1_read_be32", <<s.buf, 24>>)],
                                  "c", "d", "e", "f", "g", "h", "a", "b", W32(\h923f, \h82a4), "w6">>)
    [] pc = 9 -> Call("Round", <<[s EXCEPT !.w7 = Call("secp256k1_read_be32", <<s.buf, 28>>)],
                                  "b", "c", "d", "e", "f", "g", "h", "a", W32(\hab1c, \h5ed5), "w7">>)
    [] pc = 10 -> Call("Round", <<[s EXCEPT !.w8 = Call("secp256k1_read_be32", <<s.buf, 32>>)],
                                   "a", "b", "c", "d", "e", "f", "g", "h", W32(\hd807, \haa98), "w8">>)
    [] pc = 11 -> Call("Round", <<[s EXCEPT !.w9 = Call("secp256k1_read_be32", <<s.buf, 36>>)],
                                   "h", "a", "b", "c", "d", "e", "f", "g", W32(\h1283, \h5b01), "w9">>)
    [] pc = 12 -> Call("Round", <<[s EXCEPT !.w10 = Call("secp256k1_read_be32", <<s.buf, 40>>)],
                                   "g", "h", "a", "b", "c", "d", "e", "f", W32(\h2431, \h85be), "w10">>)
    [] pc = 13 -> Call("Round", <<[s EXCEPT !.w11 = Call("secp256k1_read_be32", <<s.buf, 44>>)],
                                   "f", "g", "h", "a", "b", "c", "d", "e", W32(\h550c, \h7dc3), "w11">>)
    [] pc = 14 -> Call("Round", <<[s EXCEPT !.w12 = Call("secp256k1_read_be32", <<s.buf, 48>>)],
                                   "e", "f", "g", "h", "a", "b", "c", "d", W32(\h72be, \h5d74), "w12">>)
    [] pc = 15 -> Call("Round", <<[s EXCEPT !.w13 = Call("secp256k1_read_be32", <<s.buf, 52>>)],
                                   "d", "e", "f", "g", "h", "a", "b", "c", W32(\h80de, \hb1fe), "w13">>)
    [] pc = 16 -> Call("Round", <<[s EXCEPT !.w14 = Call("secp256k1_read_be32", <<s.buf, 56>>)],
                                   "c", "d", "e", "f", "g", "h", "a", "b", W32(\h9bdc, \h06a7), "w14">>)
    [] pc = 17 -> Call("Round", <<[s EXCEPT !.w15 = Call("secp256k1_read_be32", <<s.buf, 60>>)],
                                   "b", "c", "d", "e", "f", "g", "h", "a", W32(\hc19b, \hf174), "w15">>)
    [] pc = 18 -> Call("Round", <<[s EXCEPT !.w0 = Call("Add32", <<@, Call("Add32", <<Call("Add32", <<Call("sigma1", <<s.w14>>), s.w9>>), Call("sigma0", <<s.w1>>)>>)>>)],
                                   "a", "b", "c", "d", "e", "f", "g", "h", W32(\he49b, \h69c1), "w0">>)
    [] pc = 19 -> Call("Round", <<[s EXCEPT !.w1 = Call("Add32", <<@, Call("Add32", <<Call("Add32", <<Call("sigma1", <<s.w15>>), s.w10>>), Call("sigma0", <<s.w2>>)>>)>>)],
                                   "h", "a", "b", "c", "d", "e", "f", "g", W32(\hefbe, \h4786), "w1">>)
    [] pc = 20 -> Call("Round", <<[s EXCEPT !.w2 = Call("Add32", <<@, Call("Add32", <<Call("Add32", <<Call("sigma1", <<s.w0>>), s.w11>>), Call("sigma0", <<s.w3>>)>>)>>)],
                                   "g", "h", "a", "b", "c", "d", "e", "f", W32(\h0fc1, \h9dc6), "w2">>)
    [] pc = 21 -> Call("Round", <<[s EXCEPT !.w3 = Call("Add32", <<@, Call("Add32", <<Call("Add32", <<Call("sigma1", <<s.w1>>), s.w12>>), Call("sigma0", <<s.w4>>)>>)>>)],
                                   "f", "g", "h", "a", "b", "c", "d", "e", W32(\h240c, \ha1cc), "w3">>)
    [] pc = 22 -> Call("Round", <<[s EXCEPT !.w4 = Call("Add32", <<@, Call("Add32", <<Call("Add32", <<Call("sigma1", <<s.w2>>), s.w13>>), Call("sigma0", <<s.w5>>)>>)>>)],
                                   "e", "f", "g", "h", "a", "b", "c", "d", W32(\h2de9, \h2c6f), "w4">>)
    [] pc = 23 -> Call("Round", <<[s EXCEPT !.w5 = Call("Add32", <<@, Call("Add32", <<Call("Add32", <<Call("sigma1", <<s.w3>>), s.w14>>), Call("sigma0", <<s.w6>>)>>)>>)],
                                   "d", "e", "f", "g", "h", "a", "b", "c", W32(\h4a74, \h84aa), "w5">>)
    [] pc = 24 -> Call("Round", <<[s EXCEPT !.w6 = Call("Add32", <<@, Call("Add32", <<Call("Add32", <<Call("sigma1", <<s.w4>>), s.w15>>), Call("sigma0", <<s.w7>>)>>)>>)],
                                   "c", "d", "e", "f", "g", "h", "a", "b", W32(\h5cb0, \ha9dc), "w6">>)
    [] pc = 25 -> Call("Round", <<[s EXCEPT !.w7 = Call("Add32", <<@, Call("Add32", <<Call("Add32", <<Call("sigma1", <<s.w5>>), s.w0>>), Call("sigma0", <<s.w8>>)>>)>>)],
                                   "b", "c", "d", "e", "f", "g", "h", "a", W32(\h76f9, \h88da), "w7">>)
    [] pc = 26 -> Call("Round", <<[s EXCEPT !.w8 = Call("Add32", <<@, Call("Add32", <<Call("Add32", <<Call("sigma1", <<s.w6>>), s.w1>>), Call("sigma0", <<s.w9>>)>>)>>)],
                                   "a", "b", "c", "d", "e", "f", "g", "h", W32(\h983e, \h5152), "w8">>)
    [] pc = 27 -> Call("Round", <<[s EXCEPT !.w9 = Call("Add32", <<@, Call("Add32", <<Call("Add32", <<Call("sigma1", <<s.w7>>), s.w2>>), Call("sigma0", <<s.w10>>)>>)>>)],
                                   "h", "a", "b", "c", "d", "e", "f", "g", W32(\ha831, \hc66d), "w9">>)
    [] pc = 28 -> Call("Round", <<[s EXCEPT !.w10 = Call("Add32", <<@, Call("Add32", <<Call("Add32", <<Call("sigma1", <<s.w8>>), s.w3>>), Call("sigma0", <<s.w11>>)>>)>>)],
                                   "g", "h", "a", "b", "c", "d", "e", "f", W32(\hb003, \h27c8), "w10">>)
    [] pc = 29 -> Call("Round", <<[s EXCEPT !.w11 = Call("Add32", <<@, Call("Add32", <<Call("Add32", <<Call("sigma1", <<s.w9>>), s.w4>>), Call("sigma0", <<s.w12>>)>>)>>)],
                                   "f", "g", "h", "a", "b", "c", "d", "e", W32(\hbf59, \h7fc7), "w11">>)
    [] pc = 30 -> Call("Round", <<[s EXCEPT !.w12 = Call("Add32", <<@, Call("Add32", <<Call("Add32", <<Call("sigma1", <<s.w10>>), s.w5>>), Call("sigma0", <<s.w13>>)>>)>>)],
                                   "e", "f", "g", "h", "a", "b", "c", "d", W32(\hc6e0, \h0bf3), "w12">>)
    [] pc = 31 -> Call("Round", <<[s EXCEPT !.w13 = Call("Add32", <<@, Call("Add32", <<Call("Add32", <<Call("sigma1", <<s.w11>>), s.w6>>), Call("sigma0", <<s.w14>>)>>)>>)],
                                   "d", "e", "f", "g", "h", "a", "b", "c", W32(\hd5a7, \h9147), "w13">>)
    [] pc = 32 -> Call("Round", <<[s EXCEPT !.w14 = Call("Add32", <<@, Call("Add32", <<Call("Add32", <<Call("sigma1", <<s.w12>>), s.w7>>), Call("sigma0", <<s.w15>>)>>)>>)],
                                   "c", "d", "e", "f", "g", "h", "a", "b", W32(\h06ca, \h6351), "w14">>)
    [] pc = 33 -> Call("Round", <<[s EXCEPT !.w15 = Call("Add32", <<@, Call("Add32", <<Call("Add32", <<Call("sigma1", <<s.w13>>), s.w8>>), Call("sigma0", <<s.w0>>)>>)>>)],
                                   "b", "c", "d", "e", "f", "g", "h", "a", W32(\h1429, \h2967), "w15">>)
    [] pc = 34 -> Call("Round", <<[s EXCEPT !.w0 = Call("Add32", <<@, Call("Add32", <<Call("Add32", <<Call("sigma1", <<s.w14>>), s.w9>>), Call("sigma0", <<s.w1>>)>>)>>)],
                                   "a", "b", "c", "d", "e", "f", "g", "h", W32(\h27b7, \h0a85), "w0">>)
    [] pc = 35 -> Call("Round", <<[s EXCEPT !.w1 = Call("Add32", <<@, Call("Add32", <<Call("Add32", <<Call("sigma1", <<s.w15>>), s.w10>>), Call("sigma0", <<s.w2>>)>>)>>)],
                                   "h", "a", "b", "c", "d", "e", "f", "g", W32(\h2e1b, \h2138), "w1">>)
    [] pc = 36 -> Call("Round", <<[s EXCEPT !.w2 = Call("Add32", <<@, Call("Add32", <<Call("Add32", <<Call("sigma1", <<s.w0>>), s.w11>>), Call("sigma0", <<s.w3>>)>>)>>)],
                                   "g", "h", "a", "b", "c", "d", "e", "f", W32(\h4d2c, \h6dfc), "w2">>)
    [] pc = 37 -> Call("Round", <<[s EXCEPT !.w3 = Call("Add32", <<@, Call("Add32", <<Call("Add32", <<Call("sigma1", <<s.w1>>), s.w12>>), Call("sigma0", <<s.w4>>)>>)>>)],
                                   "f", "g", "h", "a", "b", "c", "d", "e", W32(\h5338, \h0d13), "w3">>)
    [] pc = 38 -> Call("Round", <<[s EXCEPT !.w4 = Call("Add32", <<@, Call("Add32", <<Call("Add32", <<Call("sigma1", <<s.w2>>), s.w13>>), Call("sigma0", <<s.w5>>)>>)>>)],
                                   "e", "f", "g", "h", "a", "b", "c", "d", W32(\h650a, \h7354), "w4">>)
    [] pc = 39 -> Call("Round", <<[s EXCEPT !.w5 = Call("Add32", <<@, Call("Add32", <<Call("Add32", <<Call("sigma1", <<s.w3>>), s.w14>>), Call("sigma0", <<s.w6>>)>>)>>)],
                                   "d", "e", "f", "g", "h", "a", "b", "c", W32(\h766a, \h0abb), "w5">>)
    [] pc = 40 -> Call("Round", <<[s EXCEPT !.w6 = Call("Add32", <<@, Call("Add32", <<Call("Add32", <<Call("sigma1", <<s.w4>>), s.w15>>), Call("sigma0", <<s.w7>>)>>)>>)],
                                   "c", "d", "e", "f", "g", "h", "a", "b", W32(\h81c2, \hc92e), "w6">>)
    [] pc = 41 -> Call("Round", <<[s EXCEPT !.w7 = Call("Add32", <<@, Call("Add32", <<Call("Add32", <<Call("sigma1", <<s.w5>>), s.w0>>), Call("sigma0", <<s.w8>>)>>)>>)],
                                   "b", "c", "d", "e", "f", "g", "h", "a", W32(\h9272, \h2c85), "w7">>)
    [] pc = 42 -> Call("Round", <<[s EXCEPT !.w8 = Call("Add32", <<@, Call("Add32", <<Call("Add32", <<Call("sigma1", <<s.w6>>), s.w1>>), Call("sigma0", <<s.w9>>)>>)>>)],
                                   "a", "b", "c", "d", "e", "f", "g", "h", W32(\ha2bf, \he8a1), "w8">>)
    [] pc = 43 -> Call("Round", <<[s EXCEPT !.w9 = Call("Add32", <<@, Call("Add32", <<Call("Add32", <<Call("sigma1", <<s.w7>>), s.w2>>), Call("sigma0", <<s.w10>>)>>)>>)],
                                   "h", "a", "b", "c", "d", "e", "f", "g", W32(\ha81a, \h664b), "w9">>)
    [] pc = 44 -> Call("Round", <<[s EXCEPT !.w10 = Call("Add32", <<@, Call("Add32", <<Call("Add32", <<Call("sigma1", <<s.w8>>), s.w3>>), Call("sigma0", <<s.w11>>)>>)>>)],
                                   "g", "h", "a", "b", "c", "d", "e", "f", W32(\hc24b, \h8b70), "w10">>)
    [] pc = 45 -> Call("Round", <<[s EXCEPT !.w11 = Call("Add32", <<@, Call("Add32", <<Call("Add32", <<Call("sigma1", <<s.w9>>), s.w4>>), Call("sigma0", <<s.w12>>)>>)>>)],
                                   "f", "g", "h", "a", "b", "c", "d", "e", W32(\hc76c, \h51a3), "w11">>)
    [] pc = 46 -> Call("Round", <<[s EXCEPT !.w12 = Call("Add32", <<@, Call("Add32", <<Call("Add32", <<Call("sigma1", <<s.w10>>), s.w5>>), Call("sigma0", <<s.w13>>)>>)>>)],
                                   "e", "f", "g", "h", "a", "b", "c", "d", W32(\hd192, \he819), "w12">>)
    [] pc = 47 -> Call("Round", <<[s EXCEPT !.w13 = Call("Add32", <<@, Call("Add32", <<Call("Add32", <<Call("sigma1", <<s.w11>>), s.w6>>), Call("sigma0", <<s.w14>>)>>)>>)],
                                   "d", "e", "f", "g", "h", "a", "b", "c", W32(\hd699, \h0624), "w13">>)
    [] pc = 48 -> Call("Round", <<[s EXCEPT !.w14 = Call("Add32", <<@, Call("Add32", <<Call("Add32", <<Call("sigma1", <<s.w12>>), s.w7>>), Call("sigma0", <<s.w15>>)>>)>>)],
                                   "c", "d", "e", "f", "g", "h", "a", "b", W32(\hf40e, \h3585), "w14">>)
    [] pc = 49 -> Call("Round", <<[s EXCEPT !.w15 = Call("Add32", <<@, Call("Add32", <<Call("Add32", <<Call("sigma1", <<s.w13>>), s.w8>>), Call("sigma0", <<s.w0>>)>>)>>)],
                                   "b", "c", "d", "e", "f", "g", "h", "a", W32(\h106a, \ha070), "w15">>)
    [] pc = 50 -> Call("Round", <<[s EXCEPT !.w0 = Call("Add32", <<@, Call("Add32", <<Call("Add32", <<Call("sigma1", <<s.w14>>), s.w9>>), Call("sigma0", <<s.w1>>)>>)>>)],
                                   "a", "b", "c", "d", "e", "f", "g", "h", W32(\h19a4, \hc116), "w0">>)
    [] pc = 51 -> Call("Round", <<[s EXCEPT !.w1 = Call("Add32", <<@, Call("Add32", <<Call("Add32", <<Call("sigma1", <<s.w15>>), s.w10>>), Call("sigma0", <<s.w2>>)>>)>>)],
                                   "h", "a", "b", "c", "d", "e", "f", "g", W32(\h1e37, \h6c08), "w1">>)
    [] pc = 52 -> Call("Round", <<[s EXCEPT !.w2 = Call("Add32", <<@, Call("Add32", <<Call("Add32", <<Call("sigma1", <<s.w0>>), s.w11>>), Call("sigma0", <<s.w3>>)>>)>>)],
                                   "g", "h", "a", "b", "c", "d", "e", "f", W32(\h2748, \h774c), "w2">>)
    [] pc = 53 -> Call("Round", <<[s EXCEPT !.w3 = Call("Add32", <<@, Call("Add32", <<Call("Add32", <<Call("sigma1", <<s.w1>>), s.w12>>), Call("sigma0", <<s.w4>>)>>)>>)],
                                   "f", "g", "h", "a", "b", "c", "d", "e", W32(\h34b0, \hbcb5), "w3">>)
    [] pc = 54 -> Call("Round", <<[s EXCEPT !.w4 = Call("Add32", <<@, Call("Add32", <<Call("Add32", <<Call("sigma1", <<s.w2>>), s.w13>>), Call("sigma0", <<s.w5>>)>>)>>)],
                                   "e", "f", "g", "h", "a", "b", "c", "d", W32(\h391c, \h0cb3), "w4">>)
    [] pc = 55 -> Call("Round", <<[s EXCEPT !.w5 = Call("Add32", <<@, Call("Add32", <<Call("Add32", <<Call("sigma1", <<s.w3>>), s.w14>>), Call("sigma0", <<s.w6>>)>>)>>)],
                                   "d", "e", "f", "g", "h", "a", "b", "c", W32(\h4ed8, \haa4a), "w5">>)
    [] pc = 56 -> Call("Round", <<[s EXCEPT !.w6 = Call("Add32", <<@, Call("Add32", <<Call("Add32", <<Call("sigma1", <<s.w4>>), s.w15>>), Call("sigma0", <<s.w7>>)>>)>>)],
                                   "c", "d", "e", "f", "g", "h", "a", "b", W32(\h5b9c, \hca4f), "w6">>)
    [] pc = 57 -> Call("Round", <<[s EXCEPT !.w7 = Call("Add32", <<@, Call("Add32", <<Call("Add32", <<Call("sigma1", <<s.w5>>), s.w0>>), Call("sigma0", <<s.w8>>)>>)>>)],
                                   "b", "c", "d", "e", "f", "g", "h", "a", W32(\h682e, \h6ff3), "w7">>)
    [] pc = 58 -> Call("Round", <<[s EXCEPT !.w8 = Call("Add32", <<@, Call("Add32", <<Call("Add32", <<Call("sigma1", <<s.w6>>), s.w1>>), Call("sigma0", <<s.w9>>)>>)>>)],
                                   "a", "b", "c", "d", "e", "f", "g", "h", W32(\h748f, \h82ee), "w8">>)
    [] pc = 59 -> Call("Round", <<[s EXCEPT !.w9 = Call("Add32", <<@, Call("Add32", <<Call("Add32", <<Call("sigma1", <<s.w7>>), s.w2>>), Call("sigma0", <<s.w10>>)>>)>>)],
                                   "h", "a", "b", "c", "d", "e", "f", "g", W32(\h78a5, \h636f), "w9">>)
    [] pc = 60 -> Call("Round", <<[s EXCEPT !.w10 = Call("Add32", <<@, Call("Add32", <<Call("Add32", <<Call("sigma1", <<s.w8>>), s.w3>>), Call("sigma0", <<s.w11>>)>>)>>)],
                                   "g", "h", "a", "b", "c", "d", "e", "f", W32(\h84c8, \h7814), "w10">>)
    [] pc = 61 -> Call("Round", <<[s EXCEPT !.w11 = Call("Add32", <<@, Call("Add32", <<Call("Add32", <<Call("sigma1", <<s.w9>>), s.w4>>), Call("sigma0", <<s.w12>>)>>)>>)],
                                   "f", "g", "h", "a", "b", "c", "d", "e", W32(\h8cc7, \h0208), "w11">>)
    [] pc = 62 -> Call("Round", <<[s EXCEPT !.w12 = Call("Add32", <<@, Call("Add32", <<Call("Add32", <<Call("sigma1", <<s.w10>>), s.w5>>), Call("sigma0", <<s.w13>>)>>)>>)],
                                   "e", "f", "g", "h", "a", "b", "c", "d", W32(\h90be, \hfffa), "w12">>)
    [] pc = 63 -> Call("Round", <<[s EXCEPT !.w13 = Call("Add32", <<@, Call("Add32", <<Call("Add32", <<Call("sigma1", <<s.w11>>), s.w6>>), Call("sigma0", <<s.w14>>)>>)>>)],
                                   "d", "e", "f", "g", "h", "a", "b", "c", W32(\ha450, \h6ceb), "w13">>)
    [] pc = 64 -> Call("Round", <<[s EXCEPT !.w14 = Call("Add32", <<@, Call("Add32", <<Call("Add32", <<Call("sigma1", <<s.w12>>), s.w7>>), Call("sigma0", <<s.w15>>)>>)>>)],
                                   "c", "d", "e", "f", "g", "h", "a", "b", W32(\hbef9, \ha3f7), "w14">>)
    [] pc = 65 -> Call("Round", <<[s EXCEPT !.w15 = Call("Add32", <<@, Call("Add32", <<Call("Add32", <<Call("sigma1", <<s.w13>>), s.w8>>), Call("sigma0", <<s.w0>>)>>)>>)],
                                   "b", "c", "d", "e", "f", "g", "h", "a", W32(\hc671, \h78f2), "w15">>)
    [] pc = 66 -> [s EXCEPT !.s[0] = Call("Add32", <<@, s.a>>)]
    [] pc = 67 -> [s EXCEPT !.s[1] = Call("Add32", <<@, s.b>>)]
    [] pc = 68 -> [s EXCEPT !.s[2] = Call("Add32", <<@, s.c>>)]
    [] pc = 69 -> [s EXCEPT !.s[3] = Call("Add32", <<@, s.d>>)]
    [] pc = 70 -> [s EXCEPT !.s[4] = Call("Add32", <<@, s.e>>)]
    [] pc = 71 -> [s EXCEPT !.s[5] = Call("Add32", <<@, s.f>>)]
    [] pc = 72 -> [s EXCEPT !.s[6] = Call("Add32", <<@, s.g>>)]
    [] pc = 73 -> [s EXCEPT !.s[7] = Call("Add32", <<@, s.h>>)]
    [] pc = 74 -> Return(s, [s |-> s.s])

\* secp256k1_sha256_transform(s, buf): yields s.
secp256k1_sha256_transform(s, buf) ==
  Frame("secp256k1_sha256_transform_body", 74,
        [s |-> s, buf |-> buf,
         a |-> U64Zero, b |-> U64Zero, c |-> U64Zero, d |-> U64Zero,
         e |-> U64Zero, f |-> U64Zero, g |-> U64Zero, h |-> U64Zero,
         w0 |-> U64Zero, w1 |-> U64Zero, w2 |-> U64Zero, w3 |-> U64Zero,
         w4 |-> U64Zero, w5 |-> U64Zero, w6 |-> U64Zero, w7 |-> U64Zero,
         w8 |-> U64Zero, w9 |-> U64Zero, w10 |-> U64Zero, w11 |-> U64Zero,
         w12 |-> U64Zero, w13 |-> U64Zero, w14 |-> U64Zero, w15 |-> U64Zero])

\* The body of the while loop of secp256k1_sha256_write, on its locals.
secp256k1_sha256_write_while_body(pc, s) ==
  CASE pc = 1 -> [s EXCEPT !.chunk_len = 64 - s.bufsize]
    [] pc = 2 -> [s EXCEPT !.hash_buf = [i \in 0..63 |-> IF i >= s.bufsize /\ i < s.bufsize + s.chunk_len
                                                  THEN s.data[s.off + i - s.bufsize] ELSE @[i]]]
    [] pc = 3 -> [s EXCEPT !.off = @ + s.chunk_len]
    [] pc = 4 -> [s EXCEPT !.len = @ - s.chunk_len]
    [] pc = 5 -> Invoke(s, <<<<"hash_s", "s">>>>, secp256k1_sha256_transform(s.hash_s, s.hash_buf))
    [] pc = 6 -> [s EXCEPT !.bufsize = 0]
    \* the loop tests its condition again
    [] pc = 7 -> IF s.len >= 64 - s.bufsize
                 THEN Invoke(s, "*", Frame("secp256k1_sha256_write_while_body", 7, s))
                 ELSE s

\* hash_s, hash_buf and hash_bytes are hash->s, hash->buf and hash->bytes;
\* off is how far data has moved.
secp256k1_sha256_write_body(pc, s) ==
    \* hash->bytes & 0x3F: the low digit holds the six bits
  CASE pc = 1 -> [s EXCEPT !.bufsize = s.hash_bytes[1] % 64]
    [] pc = 2 -> [s EXCEPT !.hash_bytes = Call("U64Add", <<@, U64(s.len)>>)]
    [] pc = 3 -> IF s.len >= 64 - s.bufsize
                 THEN Invoke(s, "*", Frame("secp256k1_sha256_write_while_body", 7, s))
                 ELSE s
    [] pc = 4 -> IF s.len # 0
                 THEN [s EXCEPT !.hash_buf = [i \in 0..63 |-> IF i >= s.bufsize /\ i < s.bufsize + s.len
                                                       THEN s.data[s.off + i - s.bufsize] ELSE @[i]]]
                 ELSE s
    [] pc = 5 -> Return(s, [s |-> s.hash_s, buf |-> s.hash_buf, bytes |-> s.hash_bytes])

\* secp256k1_sha256_write(hash, data, len), data an array of bytes indexed
\* from 0: yields the hash object.
secp256k1_sha256_write(hash, data, len) ==
  Frame("secp256k1_sha256_write_body", 5,
        [hash_s |-> hash.s, hash_buf |-> hash.buf, hash_bytes |-> hash.bytes,
         data |-> data, off |-> 0, len |-> len, bufsize |-> 0, chunk_len |-> 0])

\* The body of the for loop of secp256k1_sha256_finalize without the
\* statement hash->s[i] = 0.
sha256_finalize_loop_words_kept_body(i, s) ==
  [s EXCEPT !.out32 = [j \in 0..31 |-> IF j \div 4 = i
                                       THEN secp256k1_write_be32(s.hash_s[i])[(j % 4) + 1]
                                       ELSE @[j]]]

\* The body of the for loop of secp256k1_sha256_finalize.
secp256k1_sha256_finalize_loop_body(i, s) ==
  [s EXCEPT !.out32 = [j \in 0..31 |-> IF j \div 4 = i
                                       THEN secp256k1_write_be32(s.hash_s[i])[(j % 4) + 1]
                                       ELSE @[j]],
            !.hash_s[i] = U64Zero]

\* static const unsigned char pad[64] = {0x80}
Sha256Pad == [i \in 0..63 |-> IF i = 0 THEN 128 ELSE 0]

secp256k1_sha256_finalize_body(pc, s) ==
  CASE pc = 1 -> [s EXCEPT !.sizedesc = [j \in 0..7 |-> IF j < 4 THEN secp256k1_write_be32(U32(Call("U64Shr", <<s.hash_bytes, 29>>)))[j + 1] ELSE @[j]]]
    [] pc = 2 -> [s EXCEPT !.sizedesc = [j \in 0..7 |-> IF j >= 4 THEN secp256k1_write_be32(U32(Call("U64Shl", <<s.hash_bytes, 3>>)))[j - 3] ELSE @[j]]]
    [] pc = 3 -> Invoke(s, <<<<"hash_s", "s">>, <<"hash_buf", "buf">>, <<"hash_bytes", "bytes">>>>,
                        secp256k1_sha256_write([s |-> s.hash_s, buf |-> s.hash_buf, bytes |-> s.hash_bytes], Sha256Pad,
                                               1 + ((119 - (s.hash_bytes[1] % 64)) % 64)))
    [] pc = 4 -> Invoke(s, <<<<"hash_s", "s">>, <<"hash_buf", "buf">>, <<"hash_bytes", "bytes">>>>,
                        secp256k1_sha256_write([s |-> s.hash_s, buf |-> s.hash_buf, bytes |-> s.hash_bytes], s.sizedesc, 8))
    [] pc = 5 -> Invoke(s, "*", Loop("secp256k1_sha256_finalize_loop_body", 0, 7, s))
    [] pc = 6 -> Return(s, [s |-> s.hash_s, buf |-> s.hash_buf, bytes |-> s.hash_bytes, out32 |-> s.out32])

\* secp256k1_sha256_finalize(hash, out32), out0 what out32 holds before:
\* yields the hash object and out32.
secp256k1_sha256_finalize(hash, out0) ==
  Frame("secp256k1_sha256_finalize_body", 6,
        [hash_s |-> hash.s, hash_buf |-> hash.buf, hash_bytes |-> hash.bytes,
         sizedesc |-> [j \in 0..7 |-> 0], out32 |-> out0])

secp256k1_sha256_initialize_tagged_body(pc, s) ==
  CASE pc = 1 -> [s EXCEPT !.hash_s = secp256k1_sha256_initialize.s,
                           !.hash_bytes = secp256k1_sha256_initialize.bytes]
    [] pc = 2 -> Invoke(s, <<<<"hash_s", "s">>, <<"hash_buf", "buf">>, <<"hash_bytes", "bytes">>>>,
                        secp256k1_sha256_write([s |-> s.hash_s, buf |-> s.hash_buf, bytes |-> s.hash_bytes], s.tag, s.taglen))
    [] pc = 3 -> Invoke(s, <<<<"hash_s", "s">>, <<"hash_buf", "buf">>, <<"hash_bytes", "bytes">>,
                          <<"buf", "out32">>>>,
                        secp256k1_sha256_finalize([s |-> s.hash_s, buf |-> s.hash_buf, bytes |-> s.hash_bytes], s.buf))
    [] pc = 4 -> [s EXCEPT !.hash_s = secp256k1_sha256_initialize.s,
                           !.hash_bytes = secp256k1_sha256_initialize.bytes]
    [] pc = 5 -> Invoke(s, <<<<"hash_s", "s">>, <<"hash_buf", "buf">>, <<"hash_bytes", "bytes">>>>,
                        secp256k1_sha256_write([s |-> s.hash_s, buf |-> s.hash_buf, bytes |-> s.hash_bytes], s.buf, 32))
    [] pc = 6 -> Invoke(s, <<<<"hash_s", "s">>, <<"hash_buf", "buf">>, <<"hash_bytes", "bytes">>>>,
                        secp256k1_sha256_write([s |-> s.hash_s, buf |-> s.hash_buf, bytes |-> s.hash_bytes], s.buf, 32))
    [] pc = 7 -> Return(s, [s |-> s.hash_s, buf |-> s.hash_buf, bytes |-> s.hash_bytes])

\* secp256k1_sha256_initialize_tagged(hash, tag, taglen): yields the hash
\* object.
secp256k1_sha256_initialize_tagged(hash, tag, taglen) ==
  Frame("secp256k1_sha256_initialize_tagged_body", 7,
        [hash_s |-> hash.s, hash_buf |-> hash.buf, hash_bytes |-> hash.bytes,
         tag |-> tag, taglen |-> taglen, buf |-> [j \in 0..31 |-> 0]])

\* What secp256k1_sha256_clear leaves in the hash object.
secp256k1_sha256_clear ==
  [s |-> [i \in 0..7 |-> U64Zero], buf |-> [i \in 0..63 |-> 0], bytes |-> U64Zero]

(***************************************************************************)
(* The tagged hashes of BIP-340.                                           *)
(***************************************************************************)
\* "BIP0340/nonce"
bip340_algo == Bytes(<<66, 73, 80, 48, 51, 52, 48, 47, 110, 111, 110, 99, 101>>)

\* What each initialiser with a fixed midstate stores in sha->s and
\* sha->bytes.
secp256k1_nonce_function_bip340_sha256_tagged ==
  [secp256k1_sha256_initialize
   EXCEPT !.s[0] = W32(\h4661, \h5b35),
          !.s[1] = W32(\hf4bf, \hbff7),
          !.s[2] = W32(\h9f8d, \hc671),
          !.s[3] = W32(\h8362, \h7ab3),
          !.s[4] = W32(\h6021, \h7180),
          !.s[5] = W32(\h5735, \h8661),
          !.s[6] = W32(\h21a2, \h9e54),
          !.s[7] = W32(\h68b0, \h7b4c),
          !.bytes = U64(64)]

\* The initialiser for BIP0340/aux given the midstate of BIP0340/nonce.
sha256_tagged_aux_as_nonce ==
  [secp256k1_sha256_initialize
   EXCEPT !.s = Bytes(<<W32(\h4661, \h5b35), W32(\hf4bf, \hbff7), W32(\h9f8d, \hc671),
                        W32(\h8362, \h7ab3), W32(\h6021, \h7180), W32(\h5735, \h8661),
                        W32(\h21a2, \h9e54), W32(\h68b0, \h7b4c)>>),
          !.bytes = U64(64)]

secp256k1_nonce_function_bip340_sha256_tagged_aux ==
  [secp256k1_sha256_initialize
   EXCEPT !.s[0] = W32(\h24dd, \h3219),
          !.s[1] = W32(\h4eba, \h7e70),
          !.s[2] = W32(\hca0f, \habb9),
          !.s[3] = W32(\h0fa3, \h166d),
          !.s[4] = W32(\h3afb, \he4b1),
          !.s[5] = W32(\h4c44, \hdf97),
          !.s[6] = W32(\h4aac, \h2739),
          !.s[7] = W32(\h249e, \h850a),
          !.bytes = U64(64)]

secp256k1_schnorrsig_sha256_tagged ==
  [secp256k1_sha256_initialize
   EXCEPT !.s[0] = W32(\h9cec, \hba11),
          !.s[1] = W32(\h2392, \h5381),
          !.s[2] = W32(\h1167, \h9112),
          !.s[3] = W32(\hd162, \h7e0f),
          !.s[4] = W32(\h97c8, \h7550),
          !.s[5] = W32(\h003c, \hc765),
          !.s[6] = W32(\h90f6, \h1164),
          !.s[7] = W32(\h33e9, \hb66a),
          !.bytes = U64(64)]

\* Semantics like memcmp: the difference of the first two bytes that differ.
secp256k1_memcmp_var(s1, s2, n) ==
  IF \A i \in 0..(n - 1) : s1[i] = s2[i] THEN 0
  ELSE LET i == CHOOSE j \in 0..(n - 1) : s1[j] # s2[j] /\ \A k \in 0..(j - 1) : s1[k] = s2[k]
       IN s1[i] - s2[i]

\* a ^ b for two bytes.
ByteXor(a, b) == DigitOp(Xor4, a, b)

\* ZERO_MASK with the twelfth byte 0x41.
ZERO_MASK_0x41 ==
  Bytes(<<84, 241, 105, 207, 201, 226, 229, 114,
          116, 128, 68, 65, 144, 186, 37, 196,
          136, 244, 97, 199, 11, 94, 165, 220,
          170, 247, 175, 105, 39, 10, 165, 20>>)

\* Precomputed TaggedHash("BIP0340/aux", 0x0000...00)
ZERO_MASK ==
  Bytes(<<84, 241, 105, 207, 201, 226, 229, 114,
          116, 128, 68, 31, 144, 186, 37, 196,
          136, 244, 97, 199, 11, 94, 165, 220,
          170, 247, 175, 105, 39, 10, 165, 20>>)

\* The bodies of the two for loops of nonce_function_bip340.
nonce_function_bip340_aux_loop_body(i, s) ==
  [s EXCEPT !.masked_key[i] = ByteXor(@, s.key32[i])]
nonce_function_bip340_mask_loop_body(i, s) ==
  [s EXCEPT !.masked_key[i] = ByteXor(s.key32[i], ZERO_MASK[i])]

\* The branch data != NULL of nonce_function_bip340, on its locals.
nonce_function_bip340_aux_body(pc, s) ==
  CASE pc = 1 -> [s EXCEPT !.sha_s = secp256k1_nonce_function_bip340_sha256_tagged_aux.s,
                           !.sha_bytes = secp256k1_nonce_function_bip340_sha256_tagged_aux.bytes]
    [] pc = 2 -> Invoke(s, <<<<"sha_s", "s">>, <<"sha_buf", "buf">>, <<"sha_bytes", "bytes">>>>,
                        secp256k1_sha256_write([s |-> s.sha_s, buf |-> s.sha_buf, bytes |-> s.sha_bytes], s.data, 32))
    [] pc = 3 -> Invoke(s, <<<<"sha_s", "s">>, <<"sha_buf", "buf">>, <<"sha_bytes", "bytes">>,
                             <<"masked_key", "out32">>>>,
                        secp256k1_sha256_finalize([s |-> s.sha_s, buf |-> s.sha_buf, bytes |-> s.sha_bytes], s.masked_key))
    [] pc = 4 -> Invoke(s, "*", Loop("nonce_function_bip340_aux_loop_body", 0, 31, s))

\* sha_s, sha_buf and sha_bytes are the local sha.
nonce_function_bip340_body(pc, s) ==
  CASE pc = 1 -> IF s.algo_null = 1 THEN Return(s, [nonce32 |-> s.nonce32, ret |-> 0,
                            locals |-> [sha |-> [s |-> s.sha_s, buf |-> s.sha_buf, bytes |-> s.sha_bytes],
                                        masked_key |-> s.masked_key]]) ELSE s
    [] pc = 2 -> IF s.data_null = 0
                 THEN Invoke(s, "*", Frame("nonce_function_bip340_aux_body", 4, s))
                 ELSE Invoke(s, "*", Loop("nonce_function_bip340_mask_loop_body", 0, 31, s))
    [] pc = 3 -> IF s.algolen = 13 /\ secp256k1_memcmp_var(s.algo, bip340_algo, s.algolen) = 0
                 THEN [s EXCEPT !.sha_s = secp256k1_nonce_function_bip340_sha256_tagged.s,
                                !.sha_bytes = secp256k1_nonce_function_bip340_sha256_tagged.bytes]
                 ELSE Invoke(s, <<<<"sha_s", "s">>, <<"sha_buf", "buf">>, <<"sha_bytes", "bytes">>>>,
                             secp256k1_sha256_initialize_tagged([s |-> s.sha_s, buf |-> s.sha_buf, bytes |-> s.sha_bytes], s.algo, s.algolen))
    [] pc = 4 -> Invoke(s, <<<<"sha_s", "s">>, <<"sha_buf", "buf">>, <<"sha_bytes", "bytes">>>>,
                        secp256k1_sha256_write([s |-> s.sha_s, buf |-> s.sha_buf, bytes |-> s.sha_bytes], s.masked_key, 32))
    [] pc = 5 -> Invoke(s, <<<<"sha_s", "s">>, <<"sha_buf", "buf">>, <<"sha_bytes", "bytes">>>>,
                        secp256k1_sha256_write([s |-> s.sha_s, buf |-> s.sha_buf, bytes |-> s.sha_bytes], s.xonly_pk32, 32))
    [] pc = 6 -> Invoke(s, <<<<"sha_s", "s">>, <<"sha_buf", "buf">>, <<"sha_bytes", "bytes">>>>,
                        secp256k1_sha256_write([s |-> s.sha_s, buf |-> s.sha_buf, bytes |-> s.sha_bytes], s.msg, s.msglen))
    [] pc = 7 -> Invoke(s, <<<<"sha_s", "s">>, <<"sha_buf", "buf">>, <<"sha_bytes", "bytes">>,
                             <<"nonce32", "out32">>>>,
                        secp256k1_sha256_finalize([s |-> s.sha_s, buf |-> s.sha_buf, bytes |-> s.sha_bytes], s.nonce32))
    [] pc = 8 -> [s EXCEPT !.sha_s = secp256k1_sha256_clear.s, !.sha_buf = secp256k1_sha256_clear.buf,
                           !.sha_bytes = secp256k1_sha256_clear.bytes]
    [] pc = 9 -> [s EXCEPT !.masked_key = [i \in 0..31 |-> 0]]
    [] pc = 10 -> Return(s, [nonce32 |-> s.nonce32, ret |-> 1,
                             locals |-> [sha |-> [s |-> s.sha_s, buf |-> s.sha_buf, bytes |-> s.sha_bytes],
                                         masked_key |-> s.masked_key]])

\* nonce_function_bip340(nonce32, msg, msglen, key32, xonly_pk32, algo,
\* algolen, data): algo_null = 1 when algo is NULL, data_null = 1 when data is
\* NULL, nonce0 is what nonce32 holds before, and locals0 what the locals sha
\* and masked_key hold before.  Yields nonce32, the return
\* value, and as locals what sha and masked_key hold at the return.
nonce_function_bip340(nonce0, msg, msglen, key32, xonly_pk32, algo, algo_null, algolen, data, data_null, locals0) ==
  Frame("nonce_function_bip340_body", 10,
        [nonce32 |-> nonce0, msg |-> msg, msglen |-> msglen, key32 |-> key32,
         xonly_pk32 |-> xonly_pk32, algo |-> algo, algo_null |-> algo_null,
         algolen |-> algolen, data |-> data, data_null |-> data_null,
         sha_s |-> locals0.sha.s, sha_buf |-> locals0.sha.buf,
         sha_bytes |-> locals0.sha.bytes, masked_key |-> locals0.masked_key])

(***************************************************************************)
(* Saving a group element.                                                 *)
(***************************************************************************)
secp256k1_ge_to_storage_body(pc, s) ==
  CASE pc = 1 -> [s EXCEPT !.x = s.a.x]
    [] pc = 2 -> [s EXCEPT !.y = s.a.y]
    [] pc = 3 -> Invoke(s, <<<<"x", "r">>>>, secp256k1_fe_normalize_weak(s.x))
    [] pc = 4 -> Invoke(s, <<<<"y", "r">>>>, secp256k1_fe_normalize_weak(s.y))
    [] pc = 5 -> [s EXCEPT !.r[0] = Call("U64Or", <<s.x[0], Call("U64Shl", <<s.x[1], 52>>)>>)]
    [] pc = 6 -> [s EXCEPT !.r[1] = Call("U64Or", <<Call("U64Or", <<s.x[2], Call("U64Shl", <<s.x[3], 40>>)>>), Call("U64Shl", <<s.x[4], 56>>)>>)]
    [] pc = 7 -> [s EXCEPT !.r[2] = Call("U64Or", <<s.y[0], Call("U64Shl", <<s.y[1], 52>>)>>)]
    [] pc = 8 -> [s EXCEPT !.r[3] = Call("U64Or", <<Call("U64Or", <<s.y[2], Call("U64Shl", <<s.y[3], 40>>)>>), Call("U64Shl", <<s.y[4], 56>>)>>)]
    [] pc = 9 -> Return(s, [r |-> s.r])

\* secp256k1_ge_to_storage(r, a): yields the four words of r.
secp256k1_ge_to_storage(a) ==
  Frame("secp256k1_ge_to_storage_body", 9,
        [a |-> a, x |-> FeZero, y |-> FeZero, r |-> [i \in 0..3 |-> U64Zero]])

\* The eight bytes of a uint64_t in memory (little-endian host).
StoreLe64(w) ==
  <<w[1] % 256, w[1] \div 256, w[2] % 256, w[2] \div 256,
    w[3] % 256, w[3] \div 256, w[4] % 256, w[4] \div 256>>

secp256k1_ge_to_bytes_body(pc, s) ==
  CASE pc = 1 -> Invoke(s, <<<<"s", "r">>>>, secp256k1_ge_to_storage(s.a))
    \* memcpy(buf, &s, 64) from the 32 bytes of s: bytes 0..31 are s.n[0..3],
    \* bytes 32..63 are read past the end of s.
    [] pc = 2 -> [s EXCEPT !.buf = [i \in 0..63 |-> IF i < 32 THEN StoreLe64(s.s[i \div 8])[(i % 8) + 1]
                                              ELSE s.beyond[i - 32]]]
    [] pc = 3 -> Return(s, [buf |-> s.buf])

\* secp256k1_ge_to_bytes(buf, a): yields buf.  beyond is what the 32 bytes of
\* memory after s hold.
secp256k1_ge_to_bytes(a, beyond) ==
  Frame("secp256k1_ge_to_bytes_body", 3,
        [a |-> a, beyond |-> beyond, s |-> <<>>, buf |-> [i \in 0..63 |-> 0]])

\* secp256k1_pubkey_save(pubkey, ge): yields the 64 bytes of pubkey->data as
\* buf.
secp256k1_pubkey_save(ge, beyond) == secp256k1_ge_to_bytes(ge, beyond)

(***************************************************************************)
(* Jacobian points, the placeholders for the point multiplications, and    *)
(* signing and verification.                                               *)
(***************************************************************************)
Gej(x, y, z, infinity) == [x |-> x, y |-> y, z |-> z, infinity |-> infinity]

secp256k1_gej_set_infinity ==
  Gej(secp256k1_fe_set_int(0), secp256k1_fe_set_int(0), secp256k1_fe_set_int(0), 1)

secp256k1_gej_is_infinity(a) == a.infinity

secp256k1_gej_set_ge(a) == Gej(a.x, a.y, secp256k1_fe_set_int(1), a.infinity)

secp256k1_gej_clear == Gej(FeZero, FeZero, FeZero, 0)

\* a_x, a_y, a_z and a_infinity are the fields of *a.
secp256k1_ge_set_gej_body(pc, s) ==
  CASE pc = 1 -> [s EXCEPT !.r.infinity = s.a_infinity]
    [] pc = 2 -> Invoke(s, <<<<"a_z", "r">>>>, secp256k1_fe_inv_var(s.a_z))
    [] pc = 3 -> Invoke(s, <<<<"z2", "r">>>>, secp256k1_fe_sqr(s.a_z))
    [] pc = 4 -> Invoke(s, <<<<"z3", "r">>>>, secp256k1_fe_mul(s.a_z, s.z2))
    [] pc = 5 -> Invoke(s, <<<<"a_x", "r">>>>, secp256k1_fe_mul(s.a_x, s.z2))
    [] pc = 6 -> Invoke(s, <<<<"a_y", "r">>>>, secp256k1_fe_mul(s.a_y, s.z3))
    [] pc = 7 -> [s EXCEPT !.a_z = secp256k1_fe_set_int(1)]
    [] pc = 8 -> [s EXCEPT !.r.x = s.a_x]
    [] pc = 9 -> [s EXCEPT !.r.y = s.a_y]
    [] pc = 10 -> Return(s, [r |-> s.r, a |-> Gej(s.a_x, s.a_y, s.a_z, s.a_infinity)])

\* secp256k1_ge_set_gej(r, a), r0 what *r holds before: yields r and a.
secp256k1_ge_set_gej(r0, a) ==
  Frame("secp256k1_ge_set_gej_body", 10,
        [r |-> r0, a_x |-> a.x, a_y |-> a.y, a_z |-> a.z, a_infinity |-> a.infinity,
         z2 |-> FeZero, z3 |-> FeZero])

secp256k1_ge_set_gej_var_body(pc, s) ==
  CASE pc = 1 -> IF secp256k1_gej_is_infinity(Gej(s.a_x, s.a_y, s.a_z, s.a_infinity)) # 0
                 THEN Return(s, [r |-> secp256k1_ge_set_infinity,
                                 a |-> Gej(s.a_x, s.a_y, s.a_z, s.a_infinity)])
                 ELSE s
    [] pc = 2 -> [s EXCEPT !.r.infinity = 0]
    [] pc = 3 -> Invoke(s, <<<<"a_z", "r">>>>, secp256k1_fe_inv_var(s.a_z))
    [] pc = 4 -> Invoke(s, <<<<"z2", "r">>>>, secp256k1_fe_sqr(s.a_z))
    [] pc = 5 -> Invoke(s, <<<<"z3", "r">>>>, secp256k1_fe_mul(s.a_z, s.z2))
    [] pc = 6 -> Invoke(s, <<<<"a_x", "r">>>>, secp256k1_fe_mul(s.a_x, s.z2))
    [] pc = 7 -> Invoke(s, <<<<"a_y", "r">>>>, secp256k1_fe_mul(s.a_y, s.z3))
    [] pc = 8 -> [s EXCEPT !.a_z = secp256k1_fe_set_int(1)]
    [] pc = 9 -> [s EXCEPT !.r = secp256k1_ge_set_xy(s.a_x, s.a_y)]
    [] pc = 10 -> Return(s, [r |-> s.r, a |-> Gej(s.a_x, s.a_y, s.a_z, s.a_infinity)])

\* secp256k1_ge_set_gej_var(r, a), r0 what *r holds before: yields r and a.
secp256k1_ge_set_gej_var(r0, a) ==
  Frame("secp256k1_ge_set_gej_var_body", 10,
        [r |-> r0, a_x |-> a.x, a_y |-> a.y, a_z |-> a.z, a_infinity |-> a.infinity,
         z2 |-> FeZero, z3 |-> FeZero])

secp256k1_ecmult_gen_context_is_built(ctx) == ctx.built

\* secp256k1_ecmult_gen(ctx, r, gn), r0 what *r holds before: the body is one
\* VERIFY_CHECK, which expands to nothing, so *r is left as it was.
secp256k1_ecmult_gen(ctx, r0, gn) == r0

\* secp256k1_ecmult(r, a, na, ng), r0 what *r holds before: *r is left as it
\* was.
secp256k1_ecmult(r0, a, na, ng) == r0

\* secp256k1_memczero(s, len, flag): yields the bytes of s.
secp256k1_memczero(s, len, flag) ==
  LET mask == (256 - flag) % 256
  IN [i \in DOMAIN s |-> IF i < len THEN ToInt(U64And(U64(s[i]), U64(255 - mask))) ELSE s[i]]

\* The bytes of 32 bytes b written at offset o of the array a.
WriteAt(a, o, b) == [i \in DOMAIN a |-> IF i >= o /\ i < o + 32 THEN b[i - o] ELSE a[i]]

\* The 32 bytes at offset o of the array a.
ReadAt(a, o) == [i \in 0..31 |-> a[o + i]]

\* sha_s, sha_buf and sha_bytes are the local sha.
secp256k1_schnorrsig_challenge_body(pc, s) ==
  CASE pc = 1 -> [s EXCEPT !.sha_s = secp256k1_schnorrsig_sha256_tagged.s,
                           !.sha_bytes = secp256k1_schnorrsig_sha256_tagged.bytes]
    [] pc = 2 -> Invoke(s, <<<<"sha_s", "s">>, <<"sha_buf", "buf">>, <<"sha_bytes", "bytes">>>>,
                        secp256k1_sha256_write([s |-> s.sha_s, buf |-> s.sha_buf, bytes |-> s.sha_bytes], s.r32, 32))
    [] pc = 3 -> Invoke(s, <<<<"sha_s", "s">>, <<"sha_buf", "buf">>, <<"sha_bytes", "bytes">>>>,
                        secp256k1_sha256_write([s |-> s.sha_s, buf |-> s.sha_buf, bytes |-> s.sha_bytes], s.pubkey32, 32))
    [] pc = 4 -> Invoke(s, <<<<"sha_s", "s">>, <<"sha_buf", "buf">>, <<"sha_bytes", "bytes">>>>,
                        secp256k1_sha256_write([s |-> s.sha_s, buf |-> s.sha_buf, bytes |-> s.sha_bytes], s.msg, s.msglen))
    [] pc = 5 -> Invoke(s, <<<<"sha_s", "s">>, <<"sha_buf", "buf">>, <<"sha_bytes", "bytes">>, <<"buf", "out32">>>>,
                        secp256k1_sha256_finalize([s |-> s.sha_s, buf |-> s.sha_buf, bytes |-> s.sha_bytes], s.buf))
    [] pc = 6 -> Invoke(s, <<<<"e", "r">>>>, secp256k1_scalar_set_b32(s.buf))
    [] pc = 7 -> Return(s, [e |-> s.e])

\* secp256k1_schnorrsig_challenge(e, r32, msg, msglen, pubkey32), locals0
\* what the locals sha and buf hold before: yields e.
secp256k1_schnorrsig_challenge(r32, msg, msglen, pubkey32, locals0) ==
  Frame("secp256k1_schnorrsig_challenge_body", 7,
        [r32 |-> r32, msg |-> msg, msglen |-> msglen, pubkey32 |-> pubkey32,
         sha_s |-> locals0.sha.s, sha_buf |-> locals0.sha.buf,
         sha_bytes |-> locals0.sha.bytes, buf |-> locals0.buf, e |-> <<>>])

\* x & y for two ints that are 0 or 1.
IntAnd(x, y) == IF x = 1 /\ y = 1 THEN 1 ELSE 0

\* What a return of secp256k1_schnorrsig_sign_internal leaves: the bytes of
\* sig64, the return value, the locals that hold secrets, those of the
\* nonce function (nonce_locals) included, and the locals pk and r (r_x and
\* r_y are r.x and r.y once they are normalised).
SignOut(s, ret) ==
  [sig64 |-> s.sig64, ret |-> ret, sk |-> s.sk, k |-> s.k, seckey |-> s.seckey,
   nonce32 |-> s.nonce32, rj |-> s.rj, nonce_locals |-> s.nonce_locals,
   pk |-> s.pk, r |-> s.r, r_x |-> s.r_x, r_y |-> s.r_y]

\* secp256k1_schnorrsig_sign_internal without secp256k1_scalar_clear(&sk).
schnorrsig_sign_internal_sk_kept_body(pc, s) ==
  CASE pc = 1 -> IF secp256k1_ecmult_gen_context_is_built(s.ctx.ecmult_gen_ctx) # 0 THEN s ELSE Return(s, SignOut(s, 0))
    [] pc = 2 -> IF s.sig64_null = 0 THEN s ELSE Return(s, SignOut(s, 0))
    [] pc = 3 -> IF s.msg_null = 0 \/ s.msglen = 0 THEN s ELSE Return(s, SignOut(s, 0))
    [] pc = 4 -> IF s.keypair_null = 0 THEN s ELSE Return(s, SignOut(s, 0))
    [] pc = 5 -> IF s.noncefp = "NULL" THEN [s EXCEPT !.noncefp = "secp256k1_nonce_function_bip340"] ELSE s
    [] pc = 6 -> Invoke(s, <<<<"sk", "sk">>, <<"pk", "pk">>, <<"call", "ret">>>>,
                        secp256k1_keypair_load(s.sk, 0, s.keypair, s.overrun))
    [] pc = 7 -> [s EXCEPT !.ret = IntAnd(s.ret, s.call)]
    [] pc = 8 -> IF secp256k1_fe_is_odd(s.pk.y) # 0
                 THEN Invoke(s, <<<<"sk", "r">>>>, secp256k1_scalar_negate(s.sk))
                 ELSE s
    [] pc = 9 -> [s EXCEPT !.seckey = secp256k1_scalar_get_b32(s.sk)]
    [] pc = 10 -> Invoke(s, <<<<"pk_buf", "r">>>>, secp256k1_fe_get_b32(s.pk.x))
    [] pc = 11 -> Invoke(s, <<<<"nonce32", "nonce32">>, <<"call", "ret">>, <<"nonce_locals", "locals">>>>,
                         nonce_function_bip340(s.nonce32, s.msg, s.msglen, s.seckey, s.pk_buf, bip340_algo, 0,
                                               13, s.ndata, s.ndata_null, s.nonce_locals))
    [] pc = 12 -> [s EXCEPT !.ret = IntAnd(s.ret, IF s.call # 0 THEN 1 ELSE 0)]
    [] pc = 13 -> Invoke(s, <<<<"k", "r">>>>, secp256k1_scalar_set_b32(s.nonce32))
    [] pc = 14 -> [s EXCEPT !.ret = IntAnd(s.ret, IF secp256k1_scalar_is_zero(s.k) # 0 THEN 0 ELSE 1)]
    [] pc = 15 -> Invoke(s, <<<<"k", "r">>>>,
                         secp256k1_scalar_cmov(s.k, secp256k1_scalar_one, IF s.ret # 0 THEN 0 ELSE 1))
    [] pc = 16 -> [s EXCEPT !.rj = secp256k1_ecmult_gen(s.ctx.ecmult_gen_ctx, s.rj, s.k)]
    [] pc = 17 -> Invoke(s, <<<<"r", "r">>, <<"rj", "a">>>>, secp256k1_ge_set_gej(s.r, s.rj))
    [] pc = 18 -> [s EXCEPT !.r_y = s.r.y]
    [] pc = 19 -> Invoke(s, <<<<"r_y", "r">>>>, secp256k1_fe_normalize_var(s.r_y))
    [] pc = 20 -> IF secp256k1_fe_is_odd(s.r_y) # 0
                  THEN Invoke(s, <<<<"k", "r">>>>, secp256k1_scalar_negate(s.k))
                  ELSE s
    [] pc = 21 -> [s EXCEPT !.r_x = s.r.x]
    [] pc = 22 -> Invoke(s, <<<<"r_x", "r">>>>, secp256k1_fe_normalize_var(s.r_x))
    [] pc = 23 -> Invoke(s, <<<<"call", "r">>>>, secp256k1_fe_get_b32(s.r_x))
    [] pc = 24 -> [s EXCEPT !.sig64 = WriteAt(s.sig64, 0, s.call)]
    [] pc = 25 -> Invoke(s, <<<<"e", "e">>>>,
                         secp256k1_schnorrsig_challenge(ReadAt(s.sig64, 0), s.msg, s.msglen, s.pk_buf,
                                                        s.challenge_locals))
    [] pc = 26 -> Invoke(s, <<<<"e", "r">>>>, secp256k1_scalar_mul(s.e, s.sk))
    [] pc = 27 -> Invoke(s, <<<<"e", "r">>>>, secp256k1_scalar_add(s.e, s.k))
    [] pc = 28 -> [s EXCEPT !.sig64 = WriteAt(s.sig64, 32, secp256k1_scalar_get_b32(s.e))]
    [] pc = 29 -> [s EXCEPT !.sig64 = secp256k1_memczero(s.sig64, 64, IF s.ret # 0 THEN 0 ELSE 1)]
    [] pc = 30 -> [s EXCEPT !.k = secp256k1_scalar_clear]
    [] pc = 31 -> s
    [] pc = 32 -> [s EXCEPT !.seckey = [i \in 0..31 |-> 0]]
    [] pc = 33 -> [s EXCEPT !.nonce32 = [i \in 0..31 |-> 0]]
    [] pc = 34 -> [s EXCEPT !.rj = secp256k1_gej_clear]
    [] pc = 35 -> Return(s, SignOut(s, s.ret))

\* call holds the value of the call of a statement; r_x and r_y are the
\* fields of r once they are normalised.
secp256k1_schnorrsig_sign_internal_body(pc, s) ==
    \* ARG_CHECK(secp256k1_ecmult_gen_context_is_built(&ctx->ecmult_gen_ctx))
  CASE pc = 1 -> IF secp256k1_ecmult_gen_context_is_built(s.ctx.ecmult_gen_ctx) # 0 THEN s ELSE Return(s, SignOut(s, 0))
    \* ARG_CHECK(sig64 != NULL)
    [] pc = 2 -> IF s.sig64_null = 0 THEN s ELSE Return(s, SignOut(s, 0))
    \* ARG_CHECK(msg != NULL || msglen == 0)
    [] pc = 3 -> IF s.msg_null = 0 \/ s.msglen = 0 THEN s ELSE Return(s, SignOut(s, 0))
    \* ARG_CHECK(keypair != NULL)
    [] pc = 4 -> IF s.keypair_null = 0 THEN s ELSE Return(s, SignOut(s, 0))
    [] pc = 5 -> IF s.noncefp = "NULL" THEN [s EXCEPT !.noncefp = "secp256k1_nonce_function_bip340"] ELSE s
    [] pc = 6 -> Invoke(s, <<<<"sk", "sk">>, <<"pk", "pk">>, <<"call", "ret">>>>,
                        secp256k1_keypair_load(s.sk, 0, s.keypair, s.overrun))
    [] pc = 7 -> [s EXCEPT !.ret = IntAnd(s.ret, s.call)]
    [] pc = 8 -> IF secp256k1_fe_is_odd(s.pk.y) # 0
                 THEN Invoke(s, <<<<"sk", "r">>>>, secp256k1_scalar_negate(s.sk))
                 ELSE s
    [] pc = 9 -> [s EXCEPT !.seckey = secp256k1_scalar_get_b32(s.sk)]
    [] pc = 10 -> Invoke(s, <<<<"pk_buf", "r">>>>, secp256k1_fe_get_b32(s.pk.x))
    \* noncefp(nonce32, msg, msglen, seckey, pk_buf, bip340_algo, sizeof(bip340_algo), ndata)
    [] pc = 11 -> Invoke(s, <<<<"nonce32", "nonce32">>, <<"call", "ret">>, <<"nonce_locals", "locals">>>>,
                         nonce_function_bip340(s.nonce32, s.msg, s.msglen, s.seckey, s.pk_buf, bip340_algo, 0,
                                               13, s.ndata, s.ndata_null, s.nonce_locals))
    [] pc = 12 -> [s EXCEPT !.ret = IntAnd(s.ret, IF s.call # 0 THEN 1 ELSE 0)]
    [] pc = 13 -> Invoke(s, <<<<"k", "r">>>>, secp256k1_scalar_set_b32(s.nonce32))
    [] pc = 14 -> [s EXCEPT !.ret = IntAnd(s.ret, IF secp256k1_scalar_is_zero(s.k) # 0 THEN 0 ELSE 1)]
    [] pc = 15 -> Invoke(s, <<<<"k", "r">>>>,
                         secp256k1_scalar_cmov(s.k, secp256k1_scalar_one, IF s.ret # 0 THEN 0 ELSE 1))
    [] pc = 16 -> [s EXCEPT !.rj = secp256k1_ecmult_gen(s.ctx.ecmult_gen_ctx, s.rj, s.k)]
    [] pc = 17 -> Invoke(s, <<<<"r", "r">>, <<"rj", "a">>>>, secp256k1_ge_set_gej(s.r, s.rj))
    [] pc = 18 -> [s EXCEPT !.r_y = s.r.y]
    [] pc = 19 -> Invoke(s, <<<<"r_y", "r">>>>, secp256k1_fe_normalize_var(s.r_y))
    [] pc = 20 -> IF secp256k1_fe_is_odd(s.r_y) # 0
                  THEN Invoke(s, <<<<"k", "r">>>>, secp256k1_scalar_negate(s.k))
                  ELSE s
    [] pc = 21 -> [s EXCEPT !.r_x = s.r.x]
    [] pc = 22 -> Invoke(s, <<<<"r_x", "r">>>>, secp256k1_fe_normalize_var(s.r_x))
    [] pc = 23 -> Invoke(s, <<<<"call", "r">>>>, secp256k1_fe_get_b32(s.r_x))
    [] pc = 24 -> [s EXCEPT !.sig64 = WriteAt(s.sig64, 0, s.call)]
    [] pc = 25 -> Invoke(s, <<<<"e", "e">>>>,
                         secp256k1_schnorrsig_challenge(ReadAt(s.sig64, 0), s.msg, s.msglen, s.pk_buf,
                                                        s.challenge_locals))
    [] pc = 26 -> Invoke(s, <<<<"e", "r">>>>, secp256k1_scalar_mul(s.e, s.sk))
    [] pc = 27 -> Invoke(s, <<<<"e", "r">>>>, secp256k1_scalar_add(s.e, s.k))
    [] pc = 28 -> [s EXCEPT !.sig64 = WriteAt(s.sig64, 32, secp256k1_scalar_get_b32(s.e))]
    [] pc = 29 -> [s EXCEPT !.sig64 = secp256k1_memczero(s.sig64, 64, IF s.ret # 0 THEN 0 ELSE 1)]
    [] pc = 30 -> [s EXCEPT !.k = secp256k1_scalar_clear]
    [] pc = 31 -> [s EXCEPT !.sk = secp256k1_scalar_clear]
    [] pc = 32 -> [s EXCEPT !.seckey = [i \in 0..31 |-> 0]]
    [] pc = 33 -> [s EXCEPT !.nonce32 = [i \in 0..31 |-> 0]]
    [] pc = 34 -> [s EXCEPT !.rj = secp256k1_gej_clear]
    [] pc = 35 -> Return(s, SignOut(s, s.ret))

\* secp256k1_schnorrsig_sign_internal(ctx, sig64, msg, msglen, keypair,
\* noncefp, ndata): sig64 is what the buffer holds before, x_null = 1 when the
\* pointer x is NULL, and locals0 is what the uninitialised locals hold
\* before (sk, k, e, rj, pk, r, pk_buf, seckey and the locals of the
\* functions called), overrun what the write past the storage object does.
secp256k1_schnorrsig_sign_internal(ctx, sig64, sig64_null, msg, msg_null, msglen, keypair, keypair_null, noncefp, ndata, ndata_null, locals0, overrun) ==
  Frame("secp256k1_schnorrsig_sign_internal_body", 35,
        [ctx |-> ctx, sig64 |-> sig64, sig64_null |-> sig64_null, msg |-> msg,
         msg_null |-> msg_null, msglen |-> msglen, keypair |-> keypair,
         keypair_null |-> keypair_null, noncefp |-> noncefp, ndata |-> ndata,
         ndata_null |-> ndata_null, overrun |-> overrun,
         sk |-> locals0.sk, e |-> locals0.sk, k |-> locals0.sk, rj |-> locals0.rj,
         pk |-> locals0.r, r |-> locals0.r, r_x |-> FeZero, r_y |-> FeZero,
         nonce32 |-> [i \in 0..31 |-> 0], pk_buf |-> locals0.buf, seckey |-> locals0.buf,
         ret |-> 1, call |-> 0,
         nonce_locals |-> [sha |-> locals0.sha, masked_key |-> locals0.buf],
         challenge_locals |-> [sha |-> locals0.sha, buf |-> locals0.buf]])

secp256k1_schnorrsig_sign32(ctx, sig64, sig64_null, msg32, msg_null, keypair, keypair_null, aux_rand32, aux_null, locals0, overrun) ==
  secp256k1_schnorrsig_sign_internal(ctx, sig64, sig64_null, msg32, msg_null, 32, keypair,
                                     keypair_null, "secp256k1_nonce_function_bip340",
                                     aux_rand32, aux_null, locals0, overrun)

\* What a return of secp256k1_schnorrsig_verify leaves: the return value,
\* the calls reached, and the point r the result was read from.
VerifyOut(s, ret) == [ret |-> ret, reached |-> s.reached, r |-> s.r, rx |-> s.rx]

\* secp256k1_schnorrsig_verify with the check msg != NULL in place of
\* msg != NULL || msglen == 0.
schnorrsig_verify_null_msg_rejected_body(pc, s) ==
  CASE pc = 1 -> IF s.sig64_null = 0 THEN s ELSE Return(s, VerifyOut(s, 0))
    [] pc = 2 -> IF s.msg_null = 0 THEN s ELSE Return(s, VerifyOut(s, 0))
    [] pc = 3 -> IF s.pubkey_null = 0 THEN s ELSE Return(s, VerifyOut(s, 0))
    [] pc = 4 -> Invoke(s, <<<<"rx", "r">>, <<"call", "ret">>>>,
                        secp256k1_fe_set_b32_limit(ReadAt(s.sig64, 0)))
    [] pc = 5 -> IF s.call = 0 THEN Return(s, VerifyOut(s, 0)) ELSE s
    [] pc = 6 -> Invoke(s, <<<<"s", "r">>, <<"overflow", "overflow">>>>,
                        secp256k1_scalar_set_b32(ReadAt(s.sig64, 32)))
    [] pc = 7 -> IF s.overflow # 0 THEN Return(s, VerifyOut(s, 0)) ELSE s
    [] pc = 8 -> Invoke([s EXCEPT !.reached = Append(@, "xonly_pubkey_load")],
                        <<<<"pk", "ge">>, <<"call", "ret">>>>,
                        secp256k1_xonly_pubkey_load(s.pubkey, s.overrun))
    [] pc = 9 -> IF s.call = 0 THEN Return(s, VerifyOut(s, 0)) ELSE s
    [] pc = 10 -> Invoke(s, <<<<"buf", "r">>>>, secp256k1_fe_get_b32(s.pk.x))
    [] pc = 11 -> Invoke([s EXCEPT !.reached = Append(@, "challenge")], <<<<"e", "e">>>>,
                         secp256k1_schnorrsig_challenge(ReadAt(s.sig64, 0), s.msg, s.msglen, s.buf,
                                                        s.challenge_locals))
    [] pc = 12 -> Invoke(s, <<<<"e", "r">>>>, secp256k1_scalar_negate(s.e))
    [] pc = 13 -> [s EXCEPT !.pkj = secp256k1_gej_set_ge(s.pk)]
    [] pc = 14 -> [s EXCEPT !.rj = secp256k1_ecmult(s.rj, s.pkj, s.e, s.s),
                            !.reached = Append(@, "ecmult")]
    [] pc = 15 -> Invoke(s, <<<<"r", "r">>, <<"rj", "a">>>>, secp256k1_ge_set_gej_var(s.r, s.rj))
    [] pc = 16 -> IF secp256k1_ge_is_infinity(s.r) # 0 THEN Return(s, VerifyOut(s, 0)) ELSE s
    [] pc = 17 -> [s EXCEPT !.r_y = s.r.y]
    [] pc = 18 -> Invoke(s, <<<<"r_y", "r">>>>, secp256k1_fe_normalize_var(s.r_y))
    [] pc = 19 -> IF secp256k1_fe_is_odd(s.r_y) # 0 THEN Return(s, VerifyOut(s, 0)) ELSE s
    [] pc = 20 -> Invoke(s, <<<<"call", "ret">>>>, secp256k1_fe_equal(s.rx, s.r.x))
    [] pc = 21 -> Return(s, VerifyOut(s, IF s.call # 0 THEN 1 ELSE 0))

\* call holds the value of the call of a statement, r_y is r.y once it is
\* normalised, and reached records the calls of secp256k1_xonly_pubkey_load,
\* of the challenge hash and of secp256k1_ecmult.
secp256k1_schnorrsig_verify_body(pc, s) ==
    \* ARG_CHECK(sig64 != NULL)
  CASE pc = 1 -> IF s.sig64_null = 0 THEN s ELSE Return(s, VerifyOut(s, 0))
    \* ARG_CHECK(msg != NULL || msglen == 0)
    [] pc = 2 -> IF s.msg_null = 0 \/ s.msglen = 0 THEN s ELSE Return(s, VerifyOut(s, 0))
    \* ARG_CHECK(pubkey != NULL)
    [] pc = 3 -> IF s.pubkey_null = 0 THEN s ELSE Return(s, VerifyOut(s, 0))
    [] pc = 4 -> Invoke(s, <<<<"rx", "r">>, <<"call", "ret">>>>,
                        secp256k1_fe_set_b32_limit(ReadAt(s.sig64, 0)))
    [] pc = 5 -> IF s.call = 0 THEN Return(s, VerifyOut(s, 0)) ELSE s
    [] pc = 6 -> Invoke(s, <<<<"s", "r">>, <<"overflow", "overflow">>>>,
                        secp256k1_scalar_set_b32(ReadAt(s.sig64, 32)))
    [] pc = 7 -> IF s.overflow # 0 THEN Return(s, VerifyOut(s, 0)) ELSE s
    [] pc = 8 -> Invoke([s EXCEPT !.reached = Append(@, "xonly_pubkey_load")],
                        <<<<"pk", "ge">>, <<"call", "ret">>>>,
                        secp256k1_xonly_pubkey_load(s.pubkey, s.overrun))
    [] pc = 9 -> IF s.call = 0 THEN Return(s, VerifyOut(s, 0)) ELSE s
    [] pc = 10 -> Invoke(s, <<<<"buf", "r">>>>, secp256k1_fe_get_b32(s.pk.x))
    [] pc = 11 -> Invoke([s EXCEPT !.reached = Append(@, "challenge")], <<<<"e", "e">>>>,
                         secp256k1_schnorrsig_challenge(ReadAt(s.sig64, 0), s.msg, s.msglen, s.buf,
                                                        s.challenge_locals))
    [] pc = 12 -> Invoke(s, <<<<"e", "r">>>>, secp256k1_scalar_negate(s.e))
    [] pc = 13 -> [s EXCEPT !.pkj = secp256k1_gej_set_ge(s.pk)]
    [] pc = 14 -> [s EXCEPT !.rj = secp256k1_ecmult(s.rj, s.pkj, s.e, s.s),
                            !.reached = Append(@, "ecmult")]
    [] pc = 15 -> Invoke(s, <<<<"r", "r">>, <<"rj", "a">>>>, secp256k1_ge_set_gej_var(s.r, s.rj))
    [] pc = 16 -> IF secp256k1_ge_is_infinity(s.r) # 0 THEN Return(s, VerifyOut(s, 0)) ELSE s
    [] pc = 17 -> [s EXCEPT !.r_y = s.r.y]
    [] pc = 18 -> Invoke(s, <<<<"r_y", "r">>>>, secp256k1_fe_normalize_var(s.r_y))
    \* return !secp256k1_fe_is_odd(&r.y) && secp256k1_fe_equal(&rx, &r.x)
    [] pc = 19 -> IF secp256k1_fe_is_odd(s.r_y) # 0 THEN Return(s, VerifyOut(s, 0)) ELSE s
    [] pc = 20 -> Invoke(s, <<<<"call", "ret">>>>, secp256k1_fe_equal(s.rx, s.r.x))
    [] pc = 21 -> Return(s, VerifyOut(s, IF s.call # 0 THEN 1 ELSE 0))

\* secp256k1_schnorrsig_verify(ctx, sig64, msg, msglen, pubkey), pubkey the 64
\* bytes of data, x_null = 1 when the pointer x is NULL, locals0 what the
\* uninitialised locals hold before.
secp256k1_schnorrsig_verify(ctx, sig64, sig64_null, msg, msg_null, msglen, pubkey, pubkey_null, locals0, overrun) ==
  Frame("secp256k1_schnorrsig_verify_body", 21,
        [ctx |-> ctx, sig64 |-> sig64, sig64_null |-> sig64_null, msg |-> msg,
         msg_null |-> msg_null, msglen |-> msglen, pubkey |-> pubkey,
         pubkey_null |-> pubkey_null, overrun |-> overrun,
         s |-> locals0.sk, e |-> locals0.sk, rj |-> locals0.rj, pk |-> locals0.r,
         pkj |-> locals0.rj, rx |-> locals0.r.x, r |-> locals0.r, r_y |-> FeZero,
         buf |-> locals0.buf, overflow |-> 0, call |-> 0, reached |-> <<>>,
         challenge_locals |-> [sha |-> locals0.sha, buf |-> locals0.buf]])

(***************************************************************************)
(* Calls run statement by statement, for calls that run concurrently: the  *)
(* objects the pointer arguments ctx, msg, keypair and pubkey point to are *)
(* shared, everything else is on the stack of the call.                    *)
(***************************************************************************)
\* The frame fr after its statement yielded r and the call r invokes, if
\* any, yielded v: the frame with the next pc, or [out |-> v] when the frame
\* returns or the process is stopped.
StmtInvoked(fr, r, v) ==
  IF "stopped" \in DOMAIN v THEN [out |-> v]
  ELSE [fr EXCEPT !.pc = @ + 1,
                  !.s = IF r.invoke.to = "*" THEN v ELSE StoreOut(r.s, r.invoke.to, v)]
StmtAfter(fr, r) ==
  IF "invoke" \in DOMAIN r THEN StmtInvoked(fr, r, Exec(r.invoke))
  ELSE IF "return" \in DOMAIN r THEN [out |-> r.return]
  ELSE [fr EXCEPT !.pc = @ + 1, !.s = r]

\* One statement of the frame fr, with the calls it makes.
Stmt(fr) == StmtAfter(fr, Call(fr.f, <<fr.pc, fr.s>>))

\* The statements of fr up to the next one that reads a shared object (its
\* pc is in points) or to the return.
RECURSIVE RunSeg(_, _)
RunSegNext(x, points) ==
  IF "out" \in DOMAIN x THEN x
  ELSE IF x.pc \in points THEN x
  ELSE RunSeg(x, points)
RunSeg(fr, points) == RunSegNext(Stmt(fr), points)

\* The statements of secp256k1_schnorrsig_sign_internal and of
\* secp256k1_schnorrsig_verify that read ctx, msg, keypair, pubkey or ndata.
SignAccess == {1, 6, 11, 16, 25}
VerifyAccess == {8, 11}

(***************************************************************************)
(* 128-bit helpers (the branch without a native 128-bit type, lines        *)
(* 469-535): secp256k1_uint128_simple holds the words hi and lo.  The      *)
(* names carry the suffix of the type so that both branches are defined.   *)
(***************************************************************************)
Simple(hi, lo) == [hi |-> hi, lo |-> lo]

secp256k1_u128_from_u64_simple(a) == Simple(U64Zero, a)

\* r->lo += a; r->hi += (r->lo < a)
AccumLoSimple(r, lo, a) == Simple(U64Add(r.hi, U64(U64Lt(lo, a))), lo)
secp256k1_u128_accum_u64_simple(r, a) == AccumLoSimple(r, U64Add(r.lo, a), a)

secp256k1_u128_rshift_simple(r, n) ==
  IF n >= 64
  THEN Simple(U64Zero, U64Shr(r.hi, n - 64))
  ELSE Simple(U64Shr(r.hi, n), U64Or(U64Shr(r.lo, n), U64Shl(r.hi, 64 - n)))

secp256k1_u128_to_u64_simple(a) == a.lo

secp256k1_u128_hi_u64_simple(a) == a.hi

\* 0xFFFFFFFFULL
Low32 == H64(0, 0, \hFFFF, \hFFFF)

\* The locals of secp256k1_u128_mul: m = al * bl, then mh = (al * bh) +
\* (ah * bl) + (m >> 32), then r->lo and r->hi.
MulSimpleOf(ah, bh, m, mh) ==
  Simple(U64Add(U64Mul(ah, bh), U64Shr(mh, 32)), U64Or(U64Shl(mh, 32), U64And(m, Low32)))
MulSimpleMh(al, ah, bl, bh, m) ==
  MulSimpleOf(ah, bh, m, U64Add(U64Add(U64Mul(al, bh), U64Mul(ah, bl)), U64Shr(m, 32)))
MulSimpleParts(al, ah, bl, bh) == MulSimpleMh(al, ah, bl, bh, U64Mul(al, bl))
secp256k1_u128_mul_simple(a, b) ==
  MulSimpleParts(U64And(a, Low32), U64Shr(a, 32), U64And(b, Low32), U64Shr(b, 32))

\* r->lo += t.lo; r->hi += t.hi + (r->lo < old_lo)
AccumMulSimple(r, t, lo) == Simple(U64Add(r.hi, U64Add(t.hi, U64(U64Lt(lo, r.lo)))), lo)
AccumSimple(r, t) == AccumMulSimple(r, t, U64Add(r.lo, t.lo))
secp256k1_u128_accum_mul_simple(r, a, b) == AccumSimple(r, secp256k1_u128_mul_simple(a, b))

secp256k1_u128_check_bits_simple(r, n) ==
  IF n >= 128 THEN 0
  ELSE IF n >= 64
  THEN (IF r.hi = U64Zero /\ U64Shr(r.lo, n - 64) = U64Zero THEN 1 ELSE 0)
  ELSE (IF r.hi = U64Zero /\ U64Shr(r.lo, n) = U64Zero THEN 1 ELSE 0)

\* secp256k1_u128_check_bits of the native branch: *r >> n == 0, n < 128.
secp256k1_u128_check_bits(r, n) == IF Shr8(r, n) = <<0, 0, 0, 0, 0, 0, 0, 0>> THEN 1 ELSE 0

(***************************************************************************)
(* Reference arithmetic for the properties: a 256-bit number is a          *)
(* little-endian sequence of sixteen 16-bit digits.  None of it is taken   *)
(* from the scalar code.                                                   *)
(***************************************************************************)
\* The curve order n and the field prime p.
RefN == <<\h4141, \hD036, \h5E8C, \hBFD2, \hA03B, \hAF48, \hDCE6, \hBAAE,
          \hFFFE, \hFFFF, \hFFFF, \hFFFF, \hFFFF, \hFFFF, \hFFFF, \hFFFF>>
RefP == <<\hFC2F, \hFFFF, \hFFFE, \hFFFF, \hFFFF, \hFFFF, \hFFFF, \hFFFF,
          \hFFFF, \hFFFF, \hFFFF, \hFFFF, \hFFFF, \hFFFF, \hFFFF, \hFFFF>>
BigZero == <<0, 0, 0, 0, 0, 0, 0, 0, 0, 0, 0, 0, 0, 0, 0, 0>>
BigOne == <<1, 0, 0, 0, 0, 0, 0, 0, 0, 0, 0, 0, 0, 0, 0, 0>>
BigMax == <<65535, 65535, 65535, 65535, 65535, 65535, 65535, 65535,
            65535, 65535, 65535, 65535, 65535, 65535, 65535, 65535>>

\* The digits d (each small enough that no sum below reaches 2^31) and the
\* carry c, propagated: a
\* sequence one longer than d whose last digit is the carry out.
RECURSIVE BigCarry(_, _)
BigCarry(d, c) ==
  IF d = <<>> THEN <<c>>
  ELSE <<(d[1] + c) % Radix>> \o BigCarry(Tail(d), (d[1] + c) \div Radix)

\* a + b + c as sixteen digits and the carry out as digit 17.
BigAddC(a, b, c) == BigCarry([i \in 1..16 |-> a[i] + b[i]], c)

\* a - b modulo 2^256.
BigSub(a, b) == SubSeq(BigAddC(a, [i \in 1..16 |-> 65535 - b[i]], 1), 1, 16)

\* a < b.
BigLt(a, b) ==
  \E i \in 1..16 : a[i] < b[i] /\ \A j \in (i + 1)..16 : a[j] = b[j]

\* a mod m for a < 2 * m.
BigMod1(a, m) == IF BigLt(a, m) THEN a ELSE BigSub(a, m)

\* (a + b) mod m for a, b < m.
BigAddMod(a, b, m) ==
  LET s == BigAddC(a, b, 0)
  IN IF s[17] = 1 \/ ~BigLt(SubSeq(s, 1, 16), m)
     THEN BigSub(SubSeq(s, 1, 16), m) ELSE SubSeq(s, 1, 16)

\* Bit i (from 0) of a.
BigBit(a, i) == (a[(i \div 16) + 1] \div (2 ^ (i % 16))) % 2

\* s.r becomes (2 * s.r + s.a * (bit 255 - i of s.b)) mod s.m.
BigMulBit(i, s) ==
  LET d == Call("BigAddMod", <<s.r, s.r, s.m>>)
  IN [s EXCEPT !.r = IF BigBit(s.b, 255 - i) = 1
                     THEN Call("BigAddMod", <<d, s.a, s.m>>) ELSE d]

\* (a * b) mod m for a, b < m, by doubling and adding from bit 255 down.
BigMulMod(a, b, m) ==
  Exec(Loop("BigMulBit", 0, 255, [r |-> BigZero, a |-> a, b |-> b, m |-> m])).r

\* The 32-byte big-endian encoding of a, and the number 32 big-endian bytes
\* encode.
BigToBytes(a) ==
  [i \in 0..31 |-> IF i % 2 = 0 THEN a[16 - (i \div 2)] \div 256
                   ELSE a[16 - (i \div 2)] % 256]
BytesToBig(b) == [i \in 1..16 |-> b[32 - 2 * i] * 256 + b[33 - 2 * i]]

\* The number a scalar's four limbs hold, and the scalar that holds a number.
ScalarBig(a) == a[0] \o a[1] \o a[2] \o a[3]
BigScalar(v) == Limbs(SubSeq(v, 1, 4), SubSeq(v, 5, 8), SubSeq(v, 9, 12), SubSeq(v, 13, 16))

\* The value of a field element's limbs modulo p: the sum of n[i] * 2^(52 i)
\* as nineteen digits w, then w[1..16] + (w[17] + 2^16 w[18]) * (2^32 + 977),
\* because 2^256 = 2^32 + 977 modulo p.
FeWide(a) ==
  BigCarry([k \in 1..18 |-> ShlDigit(a[0], 0, k) + ShlDigit(a[1], 52, k)
                            + ShlDigit(a[2], 104, k) + ShlDigit(a[3], 156, k)
                            + ShlDigit(a[4], 208, k)], 0)
FeBig(a) ==
  LET w == FeWide(a)
      h == BigCarry([k \in 1..16 |-> (IF k <= 2 THEN w[16 + k] * 977 ELSE 0)
                                     + (IF k = 3 \/ k = 4 THEN w[14 + k] ELSE 0)], 0)
  IN BigAddMod(BigMod1(SubSeq(w, 1, 16), RefP), SubSeq(h, 1, 16), RefP)

\* The limbs are those of a fully normalised element: limbs 0..3 below 2^52,
\* limb 4 below 2^48 and the value below p.
FeLimbsFit(a, top) ==
  /\ \A i \in 0..3 : a[i][4] < 16
  /\ a[4][4] < top
FeCanonical(a) ==
  /\ FeLimbsFit(a, 1)
  /\ BigLt(SubSeq(FeWide(a), 1, 16), RefP)

\* The number the five limbs add up to is below p.
FeBelowP(a) ==
  LET w == FeWide(a)
  IN w[17] = 0 /\ w[18] = 0 /\ BigLt(SubSeq(w, 1, 16), RefP)

\* The generator's coordinates, and an x with x^3 + 7 = 121 modulo p.
RefGx == <<\h1798, \h16F8, \h815B, \h59F2, \h28D9, \h2DCE, \hFCDB, \h029B,
         \h0B07, \hCE87, \h6295, \h55A0, \hBBAC, \hF9DC, \h667E, \h79BE>>
RefGy == <<\hD4B8, \hFB10, \hD08F, \h9C47, \h5419, \hA685, \hB448, \hFD17,
         \h08A8, \h0E11, \hFBFC, \h5DA4, \hC465, \h26A3, \hDA77, \h483A>>
RefX121 == <<\hF31B, \h3676, \hBF9C, \h9AC6, \hB69A, \h8707, \h52C1, \h9FF5,
           \h3147, \h6AC2, \h6FB2, \h3B7C, \hB186, \h4C5D, \h7E1D, \hA95C>>

\* a^((p + 1) / 4) modulo p for a = 0, 1 (and -1), Gx, 7, 8, 6, Gx^3 + 7,
\* RefX121 and 121: the square root of a or of -a that is itself a square.
RefRoots ==
  {BigZero,
   <<\h0001, \h0000, \h0000, \h0000, \h0000, \h0000, \h0000, \h0000,
     \h0000, \h0000, \h0000, \h0000, \h0000, \h0000, \h0000, \h0000>>,
   <<\hC16A, \h6560, \hCFB9, \h9580, \hB5F6, \h6E7F, \hF01D, \hF827,
     \h1FA3, \h460C, \h3052, \hBBEB, \h1164, \hCDF3, \hFBD6, \hCB6D>>,
   <<\h60DC, \hBA93, \h4B6F, \hEECB, \h7179, \h932A, \h44E3, \h38ED,
     \h333D, \hB4A7, \hCD69, \h0727, \h606A, \hDFC1, \h7EEF, \h8F53>>,
   <<\hA7EE, \h7E76, \h0D58, \hBC75, \hDD6F, \h587F, \hA8D2, \h264C,
     \hFB14, \h5822, \h6860, \h63DB, \h46B3, \hE6C6, \hF20A, \h4218>>,
   <<\h5207, \hB65D, \h948B, \h31F9, \hC88F, \h2A90, \h249E, \h348D,
     \h57C0, \h5FAD, \hBED0, \hA200, \h647D, \h4FEB, \hEBA3, \h0B7B>>,
   <<\hD4B8, \hFB10, \hD08F, \h9C47, \h5419, \hA685, \hB448, \hFD17,
     \h08A8, \h0E11, \hFBFC, \h5DA4, \hC465, \h26A3, \hDA77, \h483A>>,
   <<\h87B6, \hA4D8, \h7421, \h209C, \h4FC2, \h0056, \hC0A5, \h7C39,
     \hF41C, \h5B01, \h0306, \h96AD, \h2BF0, \hFF56, \h2B30, \h19C0>>,
   <<\h000B, \h0000, \h0000, \h0000, \h0000, \h0000, \h0000, \h0000,
     \h0000, \h0000, \h0000, \h0000, \h0000, \h0000, \h0000, \h0000>>}

\* a is a square modulo p, and a is not: -1 is not a square modulo p (p = 3
\* modulo 4), so a non-zero a is a non-square exactly when -a is a square.
RefIsSquare(a) == \E y \in RefRoots : BigMulMod(y, y, RefP) = a
RefIsNonSquare(a) ==
  /\ a # BigZero
  /\ \E y \in RefRoots : y # BigZero /\ BigMulMod(y, y, RefP) = BigSub(RefP, a)

(***************************************************************************)
(* The definitions Call names.                                             *)
(***************************************************************************)
Call(f, x) ==
  CASE f = "U64Add" -> U64Add(x[1], x[2])
    [] f = "U64Lt" -> U64Lt(x[1], x[2])
    [] f = "U64Gt" -> U64Gt(x[1], x[2])
    [] f = "U64Ge" -> U64Ge(x[1], x[2])
    [] f = "secp256k1_scalar_check_overflow_body" ->
         secp256k1_scalar_check_overflow_body(x[1], x[2])
    [] f = "secp256k1_u128_accum_u64" -> secp256k1_u128_accum_u64(x[1], x[2])
    [] f = "U64Mul" -> U64Mul(x[1], x[2])
    [] f = "secp256k1_u128_rshift" -> secp256k1_u128_rshift(x[1], x[2])
    [] f = "secp256k1_scalar_reduce_body" -> secp256k1_scalar_reduce_body(x[1], x[2])
    [] f = "secp256k1_scalar_set_b32_body" -> secp256k1_scalar_set_b32_body(x[1], x[2])
    [] f = "U64Eq" -> U64Eq(x[1], x[2])
    [] f = "U64Or" -> U64Or(x[1], x[2])
    [] f = "secp256k1_scalar_is_zero" -> secp256k1_scalar_is_zero(x[1])
    [] f = "U64And" -> U64And(x[1], x[2])
    [] f = "secp256k1_scalar_negate_body" -> secp256k1_scalar_negate_body(x[1], x[2])
    [] f = "secp256k1_scalar_add_body" -> secp256k1_scalar_add_body(x[1], x[2])
    [] f = "secp256k1_scalar_set_b32_seckey_body" ->
         secp256k1_scalar_set_b32_seckey_body(x[1], x[2])
    [] f = "secp256k1_scalar_cmov_body" -> secp256k1_scalar_cmov_body(x[1], x[2])
    [] f = "secp256k1_u128_mul" -> secp256k1_u128_mul(x[1], x[2])
    [] f = "muladd_body" -> muladd_body(x[1], x[2])
    [] f = "muladd_fast_body" -> muladd_fast_body(x[1], x[2])
    [] f = "sumadd_body" -> sumadd_body(x[1], x[2])
    [] f = "sumadd_fast_body" -> sumadd_fast_body(x[1], x[2])
    [] f = "secp256k1_scalar_mul_512_body" -> secp256k1_scalar_mul_512_body(x[1], x[2])
    [] f = "secp256k1_u128_accum_mul" -> secp256k1_u128_accum_mul(x[1], x[2], x[3])
    [] f = "secp256k1_scalar_reduce_512_body" -> secp256k1_scalar_reduce_512_body(x[1], x[2])
    [] f = "secp256k1_scalar_mul_body" -> secp256k1_scalar_mul_body(x[1], x[2])
    [] f = "U64Shr" -> U64Shr(x[1], x[2])
    [] f = "secp256k1_fe_normalize_var_body" -> secp256k1_fe_normalize_var_body(x[1], x[2])
    [] f = "secp256k1_fe_normalize_weak_body" -> secp256k1_fe_normalize_weak_body(x[1], x[2])
    [] f = "U64Xor" -> U64Xor(x[1], x[2])
    [] f = "secp256k1_fe_normalizes_to_zero_body" ->
         secp256k1_fe_normalizes_to_zero_body(x[1], x[2])
    [] f = "U64Sub" -> U64Sub(x[1], x[2])
    [] f = "secp256k1_fe_negate" -> secp256k1_fe_negate(x[1], x[2])
    [] f = "secp256k1_fe_add" -> secp256k1_fe_add(x[1], x[2])
    [] f = "secp256k1_fe_equal_body" -> secp256k1_fe_equal_body(x[1], x[2])
    [] f = "U64Shl" -> U64Shl(x[1], x[2])
    [] f = "secp256k1_fe_set_b32_mod_body" -> secp256k1_fe_set_b32_mod_body(x[1], x[2])
    [] f = "secp256k1_fe_set_b32_limit_body" -> secp256k1_fe_set_b32_limit_body(x[1], x[2])
    [] f = "secp256k1_fe_get_b32_body" -> secp256k1_fe_get_b32_body(x[1], x[2])
    [] f = "FeMul128" -> FeMul128(x[1], x[2], x[3], x[4])
    [] f = "FeAccumMul" -> FeAccumMul(x[1], x[2], x[3], x[4])
    [] f = "FeRshift" -> FeRshift(x[1], x[2], x[3])
    [] f = "FeAccumU64" -> FeAccumU64(x[1], x[2], x[3])
    [] f = "secp256k1_fe_mul_body" -> secp256k1_fe_mul_body(x[1], x[2])
    [] f = "FeDouble" -> FeDouble(x[1], x[2])
    [] f = "secp256k1_fe_sqr_body" -> secp256k1_fe_sqr_body(x[1], x[2])
    [] f = "fe_sqr_loop_body" -> fe_sqr_loop_body(x[1], x[2])
    [] f = "secp256k1_fe_sqrt_body" -> secp256k1_fe_sqrt_body(x[1], x[2])
    [] f = "secp256k1_fe_inv_var_body" -> secp256k1_fe_inv_var_body(x[1], x[2])
    [] f = "secp256k1_fe_add_int" -> secp256k1_fe_add_int(x[1], x[2])
    [] f = "secp256k1_ge_set_xo_var_body" -> secp256k1_ge_set_xo_var_body(x[1], x[2])
    [] f = "secp256k1_ge_from_storage_body" -> secp256k1_ge_from_storage_body(x[1], x[2])
    [] f = "secp256k1_ge_from_bytes_body" -> secp256k1_ge_from_bytes_body(x[1], x[2])
    [] f = "secp256k1_pubkey_load_body" -> secp256k1_pubkey_load_body(x[1], x[2])
    [] f = "secp256k1_keypair_seckey_load_body" ->
         secp256k1_keypair_seckey_load_body(x[1], x[2])
    [] f = "secp256k1_keypair_load_body" -> secp256k1_keypair_load_body(x[1], x[2])
    [] f = "Round" -> Round(x[1], x[2], x[3], x[4], x[5], x[6], x[7], x[8], x[9], x[10], x[11])
    [] f = "secp256k1_read_be32" -> secp256k1_read_be32(x[1], x[2])
    [] f = "Add32" -> Add32(x[1], x[2])
    [] f = "sigma1" -> sigma1(x[1])
    [] f = "sigma0" -> sigma0(x[1])
    [] f = "secp256k1_sha256_transform_body" -> secp256k1_sha256_transform_body(x[1], x[2])
    [] f = "secp256k1_sha256_write_while_body" -> secp256k1_sha256_write_while_body(x[1], x[2])
    [] f = "secp256k1_sha256_write_body" -> secp256k1_sha256_write_body(x[1], x[2])
    [] f = "secp256k1_sha256_finalize_loop_body" ->
         secp256k1_sha256_finalize_loop_body(x[1], x[2])
    [] f = "secp256k1_sha256_finalize_body" -> secp256k1_sha256_finalize_body(x[1], x[2])
    [] f = "secp256k1_sha256_initialize_tagged_body" ->
         secp256k1_sha256_initialize_tagged_body(x[1], x[2])
    [] f = "nonce_function_bip340_aux_loop_body" ->
         nonce_function_bip340_aux_loop_body(x[1], x[2])
    [] f = "nonce_function_bip340_aux_body" -> nonce_function_bip340_aux_body(x[1], x[2])
    [] f = "nonce_function_bip340_mask_loop_body" ->
         nonce_function_bip340_mask_loop_body(x[1], x[2])
    [] f = "nonce_function_bip340_body" -> nonce_function_bip340_body(x[1], x[2])
    [] f = "secp256k1_ge_to_storage_body" -> secp256k1_ge_to_storage_body(x[1], x[2])
    [] f = "secp256k1_ge_to_bytes_body" -> secp256k1_ge_to_bytes_body(x[1], x[2])
    [] f = "secp256k1_ge_set_gej_body" -> secp256k1_ge_set_gej_body(x[1], x[2])
    [] f = "secp256k1_ge_set_gej_var_body" -> secp256k1_ge_set_gej_var_body(x[1], x[2])
    [] f = "secp256k1_schnorrsig_challenge_body" ->
         secp256k1_schnorrsig_challenge_body(x[1], x[2])
    [] f = "secp256k1_schnorrsig_sign_internal_body" ->
         secp256k1_schnorrsig_sign_internal_body(x[1], x[2])
    [] f = "secp256k1_schnorrsig_verify_body" -> secp256k1_schnorrsig_verify_body(x[1], x[2])
    [] f = "BigAddMod" -> BigAddMod(x[1], x[2], x[3])
    [] f = "BigMulBit" -> BigMulBit(x[1], x[2])

(***************************************************************************)
(* The scalar operations applied in sequence to one scalar register.       *)
(***************************************************************************)
MaxScalarOps == 2

\* The numbers 0, 1, n - 1, n, n + 1 and 2^256 - 1.
ScalarNumbers ==
  {BigZero, BigOne,
   <<\h4140, \hD036, \h5E8C, \hBFD2, \hA03B, \hAF48, \hDCE6, \hBAAE,
     \hFFFE, \hFFFF, \hFFFF, \hFFFF, \hFFFF, \hFFFF, \hFFFF, \hFFFF>>,
   RefN,
   <<\h4142, \hD036, \h5E8C, \hBFD2, \hA03B, \hAF48, \hDCE6, \hBAAE,
     \hFFFE, \hFFFF, \hFFFF, \hFFFF, \hFFFF, \hFFFF, \hFFFF, \hFFFF>>,
   BigMax}

\* The 32-byte inputs: the big-endian encodings of the numbers.
ScalarInputs == {BigToBytes(v) : v \in ScalarNumbers}

\* The second operands: the scalars that hold the numbers below n and
\* 2^256 - 1 - n.
ScalarOperands ==
  {BigScalar(v) : v \in {w \in ScalarNumbers : BigLt(w, RefN)}}
  \cup {Limbs(U64Not(SECP256K1_N_0), U64Not(SECP256K1_N_1), U64Not(SECP256K1_N_2),
              U64Not(SECP256K1_N_3))}

ZeroBytes32 == [i \in 0..31 |-> 0]

ScalarInit ==
  \E b \in ScalarInputs :
    LET s == Exec(secp256k1_scalar_set_b32(b))
    IN /\ acc = s.r
       /\ last = [op |-> "set_b32", x |-> secp256k1_scalar_zero,
                  y |-> secp256k1_scalar_zero, bin |-> b, flag |-> s.overflow]
       /\ nops = 0

ScalarSetB32(b) ==
  LET s == Exec(secp256k1_scalar_set_b32(b))
  IN /\ nops < MaxScalarOps
     /\ acc' = s.r
     /\ last' = [op |-> "set_b32", x |-> secp256k1_scalar_zero,
                 y |-> secp256k1_scalar_zero, bin |-> b, flag |-> s.overflow]
     /\ nops' = nops + 1

ScalarSetB32Seckey(b) ==
  LET s == Exec(secp256k1_scalar_set_b32_seckey(b))
  IN /\ nops < MaxScalarOps
     /\ acc' = s.r
     /\ last' = [op |-> "set_b32_seckey", x |-> secp256k1_scalar_zero,
                 y |-> secp256k1_scalar_zero, bin |-> b, flag |-> s.ret]
     /\ nops' = nops + 1

ScalarGetB32 ==
  /\ nops < MaxScalarOps
  /\ acc' = acc
  /\ last' = [op |-> "get_b32", x |-> acc, y |-> secp256k1_scalar_zero,
              bin |-> secp256k1_scalar_get_b32(acc), flag |-> 0]
  /\ nops' = nops + 1

ScalarNegate ==
  /\ nops < MaxScalarOps
  /\ acc' = Exec(secp256k1_scalar_negate(acc)).r
  /\ last' = [op |-> "negate", x |-> acc, y |-> secp256k1_scalar_zero,
              bin |-> ZeroBytes32, flag |-> 0]
  /\ nops' = nops + 1

ScalarAdd(b) ==
  LET s == Exec(secp256k1_scalar_add(acc, b))
  IN /\ nops < MaxScalarOps
     /\ acc' = s.r
     /\ last' = [op |-> "add", x |-> acc, y |-> b, bin |-> ZeroBytes32,
                 flag |-> s.ret]
     /\ nops' = nops + 1

ScalarMul(b) ==
  /\ nops < MaxScalarOps
  /\ acc' = Exec(secp256k1_scalar_mul(acc, b)).r
  /\ last' = [op |-> "mul", x |-> acc, y |-> b, bin |-> ZeroBytes32, flag |-> 0]
  /\ nops' = nops + 1

ScalarCmov(a, flag) ==
  /\ nops < MaxScalarOps
  /\ acc' = Exec(secp256k1_scalar_cmov(acc, a, flag)).r
  /\ last' = [op |-> "cmov", x |-> acc, y |-> a, bin |-> ZeroBytes32, flag |-> flag]
  /\ nops' = nops + 1

ScalarNext ==
  \/ \E b \in ScalarInputs : ScalarSetB32(b)
  \/ \E b \in ScalarInputs : ScalarSetB32Seckey(b)
  \/ ScalarGetB32
  \/ ScalarNegate
  \/ \E b \in ScalarOperands : ScalarAdd(b)
  \/ \E b \in ScalarOperands : ScalarMul(b)
  \/ \E a \in ScalarOperands, flag \in {0, 1} : ScalarCmov(a, flag)

ScalarSpec == ScalarInit /\ [][ScalarNext]_vars


(***************************************************************************)
(* The field operations applied in sequence to one field element.  The     *)
(* inverse, the square root and the point decoding are applied to an       *)
(* element that has just been decoded with success.                        *)
(***************************************************************************)
MaxFieldOps == 1

\* The numbers 0, 1, Gx, RefX121, p - 1, p, p + 1, 2^256 - 2^32 - 1,
\* 2^256 - 2^32 and 2^256 - 1 as 32 big-endian bytes.
FieldInputs ==
  {BigToBytes(v) : v \in
     {BigZero, BigOne, RefGx, RefX121,
      <<\hFC2E, \hFFFF, \hFFFE, \hFFFF, \hFFFF, \hFFFF, \hFFFF, \hFFFF,
        \hFFFF, \hFFFF, \hFFFF, \hFFFF, \hFFFF, \hFFFF, \hFFFF, \hFFFF>>,
      RefP,
      <<\hFC30, \hFFFF, \hFFFE, \hFFFF, \hFFFF, \hFFFF, \hFFFF, \hFFFF,
        \hFFFF, \hFFFF, \hFFFF, \hFFFF, \hFFFF, \hFFFF, \hFFFF, \hFFFF>>,
      <<\hFFFF, \hFFFF, \hFFFE, \hFFFF, \hFFFF, \hFFFF, \hFFFF, \hFFFF,
        \hFFFF, \hFFFF, \hFFFF, \hFFFF, \hFFFF, \hFFFF, \hFFFF, \hFFFF>>,
      <<\h0000, \h0000, \hFFFF, \hFFFF, \hFFFF, \hFFFF, \hFFFF, \hFFFF,
        \hFFFF, \hFFFF, \hFFFF, \hFFFF, \hFFFF, \hFFFF, \hFFFF, \hFFFF>>,
      BigMax}}

\* Second factors: 2, p - 1 as limbs, the largest limbs of magnitude 8
\* (16 * (2^52 - 1), 16 * (2^48 - 1) in limb 4), and the largest limbs the
\* multiplication accepts (56 bits, 52 in limb 4).
FieldOperands ==
  {Fe(U64(2), U64Zero, U64Zero, U64Zero, U64Zero),
   Fe(H64(\h000F, \hFFFE, \hFFFF, \hFC2E), FE_M, FE_M, FE_M,
      H64(\h0000, \hFFFF, \hFFFF, \hFFFF)),
   Fe(H64(\h00FF, \hFFFF, \hFFFF, \hFFF0), H64(\h00FF, \hFFFF, \hFFFF, \hFFF0),
      H64(\h00FF, \hFFFF, \hFFFF, \hFFF0), H64(\h00FF, \hFFFF, \hFFFF, \hFFF0),
      H64(\h000F, \hFFFF, \hFFFF, \hFFF0)),
   Fe(H64(\h00FF, \hFFFF, \hFFFF, \hFFFF), H64(\h00FF, \hFFFF, \hFFFF, \hFFFF),
      H64(\h00FF, \hFFFF, \hFFFF, \hFFFF), H64(\h00FF, \hFFFF, \hFFFF, \hFFFF),
      H64(\h000F, \hFFFF, \hFFFF, \hFFFF))}

\* The record of the last operation: its name, its operands x and y, its
\* bytes in or out, the int it took (arg) and the one it returned (flag), the
\* carry-loss flag of a multiplication, and the infinity flag of a decoded
\* point.
FieldLast(op, x, y, bin, arg, flag, wrap) ==
  [op |-> op, x |-> x, y |-> y, bin |-> bin, arg |-> arg, flag |-> flag,
   wrap |-> wrap, infinity |-> 0]

FieldInit ==
  \E b \in FieldInputs :
    LET q == Exec(secp256k1_fe_set_b32_limit(b))
    IN /\ acc = q.r
       /\ last = FieldLast("set_b32_limit", FeZero, FeZero, b, 0, q.ret, 0)
       /\ nops = 0

FieldSetB32(b) ==
  LET q == Exec(secp256k1_fe_set_b32_limit(b))
  IN /\ nops < MaxFieldOps
     /\ acc' = q.r
     /\ last' = FieldLast("set_b32_limit", FeZero, FeZero, b, 0, q.ret, 0)
     /\ nops' = nops + 1

FieldGetB32 ==
  /\ nops < MaxFieldOps
  /\ acc' = acc
  /\ last' = FieldLast("get_b32", acc, FeZero, Exec(secp256k1_fe_get_b32(acc)).r, 0, 0, 0)
  /\ nops' = nops + 1

FieldNormalize ==
  /\ nops < MaxFieldOps
  /\ acc' = Exec(secp256k1_fe_normalize_var(acc)).r
  /\ last' = FieldLast("normalize_var", acc, FeZero, ZeroBytes32, 0, 0, 0)
  /\ nops' = nops + 1

\* secp256k1_fe_negate(&acc, &acc, m) for an acc of magnitude 1.
FieldNegate(m) ==
  /\ nops < MaxFieldOps
  /\ FeLimbsFit(acc, 1)
  /\ acc' = secp256k1_fe_negate(acc, m)
  /\ last' = FieldLast("negate", acc, FeZero, ZeroBytes32, m, 0, 0)
  /\ nops' = nops + 1

FieldMul(b) ==
  LET q == Exec(secp256k1_fe_mul(acc, b))
  IN /\ nops < MaxFieldOps
     /\ acc' = q.r
     /\ last' = FieldLast("mul", acc, b, ZeroBytes32, 0, 0, q.wrap)
     /\ nops' = nops + 1

FieldSqr ==
  LET q == Exec(secp256k1_fe_sqr(acc))
  IN /\ nops < MaxFieldOps
     /\ acc' = q.r
     /\ last' = FieldLast("sqr", acc, acc, ZeroBytes32, 0, 0, q.wrap)
     /\ nops' = nops + 1

\* The element has just been decoded with success.
FieldDecoded == nops = 0 /\ last.op = "set_b32_limit" /\ last.flag = 1

FieldInv ==
  /\ FieldDecoded
  /\ acc' = Exec(secp256k1_fe_inv_var(acc)).r
  /\ last' = FieldLast("inv_var", acc, FeZero, ZeroBytes32, 0, 0, 0)
  /\ nops' = nops + 1

FieldSqrt ==
  LET q == Exec(secp256k1_fe_sqrt(acc))
  IN /\ FieldDecoded
     /\ acc' = q.r
     /\ last' = FieldLast("sqrt", acc, FeZero, ZeroBytes32, 0, q.ret, 0)
     /\ nops' = nops + 1

\* secp256k1_ge_set_xo_var(&r, &acc, odd): acc becomes r.y, y of the record
\* is r.x.
FieldSetXo(odd) ==
  LET q == Exec(secp256k1_ge_set_xo_var(acc, odd))
  IN /\ FieldDecoded
     /\ acc' = q.r.y
     /\ last' = [FieldLast("set_xo_var", acc, q.r.x, ZeroBytes32, odd, q.ret, 0)
                   EXCEPT !.infinity = q.r.infinity]
     /\ nops' = nops + 1

FieldNext ==
  \/ \E b \in FieldInputs : FieldSetB32(b)
  \/ FieldGetB32
  \/ FieldNormalize
  \/ \E m \in {1, 7} : FieldNegate(m)
  \/ \E b \in FieldOperands : FieldMul(b)
  \/ FieldSqr
  \/ FieldInv
  \/ FieldSqrt
  \/ \E odd \in {0, 1} : FieldSetXo(odd)

FieldSpec == FieldInit /\ [][FieldNext]_vars

(***************************************************************************)
(* The hash operations applied in sequence to two hash objects given the   *)
(* same tag: hash is initialised by secp256k1_sha256_initialize_tagged and *)
(* twin by the initialiser with the tag's fixed midstate; and single calls *)
(* of the nonce function.                                                  *)
(***************************************************************************)
MaxHashOps == 2

\* "BIP0340/aux", "BIP0340/nonce" and "BIP0340/challenge", each with the
\* initialiser that carries its midstate.
HashTags ==
  <<[tag |-> Bytes(<<66, 73, 80, 48, 51, 52, 48, 47, 97, 117, 120>>), taglen |-> 11,
     tagged |-> secp256k1_nonce_function_bip340_sha256_tagged_aux],
    [tag |-> bip340_algo, taglen |-> 13,
     tagged |-> secp256k1_nonce_function_bip340_sha256_tagged],
    [tag |-> Bytes(<<66, 73, 80, 48, 51, 52, 48, 47, 99, 104, 97, 108, 108, 101, 110,
                     103, 101>>), taglen |-> 17,
     tagged |-> secp256k1_schnorrsig_sha256_tagged]>>

\* What an object that was never initialised may hold.
ShaJunk ==
  {[s |-> [i \in 0..7 |-> U64Zero], buf |-> [i \in 0..63 |-> 0], bytes |-> U64Zero],
   [s |-> [i \in 0..7 |-> W32(\hFFFF, \hFFFF)], buf |-> [i \in 0..63 |-> 170],
    bytes |-> U64Max]}

\* The data written: 32 zero bytes, the bytes 1..32, one byte and 64 bytes.
HashBytes1 == [i \in 0..31 |-> i + 1]
HashChunks ==
  {[data |-> ZeroBytes32, len |-> 32], [data |-> HashBytes1, len |-> 32],
   [data |-> Bytes(<<97>>), len |-> 1], [data |-> [i \in 0..63 |-> 255 - i], len |-> 64]}

\* The messages, the values of algo and of data given to the nonce function.
NonceMsgs == {[data |-> HashBytes1, len |-> 32], [data |-> <<>>, len |-> 0]}
NonceAlgos ==
  {[algo |-> <<>>, null |-> 1, len |-> 0], [algo |-> bip340_algo, null |-> 0, len |-> 13],
   [algo |-> HashTags[1].tag, null |-> 0, len |-> 11]}
NonceData ==
  {[data |-> <<>>, null |-> 1], [data |-> ZeroBytes32, null |-> 0],
   [data |-> HashBytes1, null |-> 0]}

\* The object that holds the words and the count of a and the buffer of b.
ShaOf(a, b) == [s |-> a.s, buf |-> b.buf, bytes |-> a.bytes]

\* The record of the last operation: tag is the index of the tag, msg the
\* bytes written since the objects were initialised, out and out2 the
\* digests of hash and twin (or the nonce and the return value), call the
\* arguments of the nonce function.
HashLast(op, tag, junk, msg, out, out2, call) ==
  [op |-> op, tag |-> tag, junk |-> junk, msg |-> msg, out |-> out, out2 |-> out2,
   call |-> call]

HashInit ==
  \E k \in 1..3, j \in ShaJunk :
    /\ acc = [hash |-> Exec(secp256k1_sha256_initialize_tagged(j, HashTags[k].tag,
                                                               HashTags[k].taglen)),
              twin |-> ShaOf(HashTags[k].tagged, j)]
    /\ last = HashLast("initialize_tagged", k, j, <<>>, ZeroBytes32, ZeroBytes32, <<>>)
    /\ nops = 0

HashOpen == nops < MaxHashOps /\ last.op \in {"initialize_tagged", "write"}

HashWrite(d) ==
  /\ HashOpen
  /\ acc' = [hash |-> Exec(secp256k1_sha256_write(acc.hash, d.data, d.len)),
             twin |-> Exec(secp256k1_sha256_write(acc.twin, d.data, d.len))]
  /\ last' = HashLast("write", last.tag, last.junk,
                      last.msg \o [i \in 1..d.len |-> d.data[i - 1]],
                      ZeroBytes32, ZeroBytes32, <<>>)
  /\ nops' = nops + 1

HashFinalized(f, g) ==
  /\ acc' = [hash |-> ShaOf(f, f), twin |-> ShaOf(g, g)]
  /\ last' = HashLast("finalize", last.tag, last.junk, last.msg, f.out32, g.out32, <<>>)
  /\ nops' = nops + 1

HashFinalize ==
  /\ HashOpen
  /\ HashFinalized(Exec(secp256k1_sha256_finalize(acc.hash, ZeroBytes32)),
                   Exec(secp256k1_sha256_finalize(acc.twin, ZeroBytes32)))

NonceCall(key, m, a, d, locals) ==
  nonce_function_bip340(ZeroBytes32, m.data, m.len, key, HashBytes1, a.algo, a.null, a.len,
                        d.data, d.null, locals)

HashNonced(q, call) ==
  /\ acc' = acc
  /\ last' = HashLast("nonce", last.tag, last.junk, <<>>, q.nonce32, q.ret, call)
  /\ nops' = nops + 1

HashNonce(key, m, a, d) ==
  /\ nops = 0
  /\ last.tag = 2
  /\ HashNonced(Exec(NonceCall(key, m, a, d, [sha |-> last.junk, masked_key |-> ZeroBytes32])),
                [key |-> key, m |-> m, a |-> a, d |-> d])

HashNext ==
  \/ \E d \in HashChunks : HashWrite(d)
  \/ HashFinalize
  \/ \E key \in {ZeroBytes32, HashBytes1}, m \in NonceMsgs, a \in NonceAlgos, d \in NonceData :
       HashNonce(key, m, a, d)

HashSpec == HashInit /\ [][HashNext]_vars

(***************************************************************************)
(* SHA-256 streaming: one hash object is initialised, written to in        *)
(* chunks and finalised.                                                   *)
(***************************************************************************)
MaxStreamWrites == 3

\* The chunks written: one byte, 32 bytes, 63 bytes and 64 bytes.
StreamChunks ==
  {[data |-> Bytes(<<97>>), len |-> 1], [data |-> HashBytes1, len |-> 32],
   [data |-> [i \in 0..62 |-> 100 + i], len |-> 63],
   [data |-> [i \in 0..63 |-> 255 - i], len |-> 64]}

\* The record of the last operation: msg the bytes written since the object
\* was initialised, out the digest.
StreamLast(op, msg, out) == [op |-> op, msg |-> msg, out |-> out]

\* secp256k1_sha256_initialize on an object that holds j.
StreamInit ==
  \E j \in ShaJunk :
    /\ acc = ShaOf(secp256k1_sha256_initialize, j)
    /\ last = StreamLast("initialize", <<>>, ZeroBytes32)
    /\ nops = 0

StreamWrite(d) ==
  /\ nops < MaxStreamWrites
  /\ last.op # "finalize"
  /\ acc' = Exec(secp256k1_sha256_write(acc, d.data, d.len))
  /\ last' = StreamLast("write", last.msg \o [i \in 1..d.len |-> d.data[i - 1]], ZeroBytes32)
  /\ nops' = nops + 1

StreamFinalized(f) ==
  /\ acc' = ShaOf(f, f)
  /\ last' = StreamLast("finalize", last.msg, f.out32)
  /\ nops' = nops

StreamFinalize ==
  /\ last.op # "finalize"
  /\ StreamFinalized(Exec(secp256k1_sha256_finalize(acc, ZeroBytes32)))

StreamNext ==
  \/ \E d \in StreamChunks : StreamWrite(d)
  \/ StreamFinalize

StreamSpec == StreamInit /\ [][StreamNext]_vars

(***************************************************************************)
(* The phases of the scalar multiplication: secp256k1_scalar_mul_512 on    *)
(* two operands that are any four limbs, then secp256k1_scalar_reduce_512  *)
(* on the product, each stopped where the source asserts a bound.          *)
(***************************************************************************)
\* The operands: 0, 1, 2^64 - 1, 2^128, 2^255, n - 1, n, 2^256 - n, the
\* limbs AAAA... and 2^256 - 1.
MulNumbers ==
  {BigScalar(v) : v \in
     {BigZero, BigOne,
      <<65535, 65535, 65535, 65535, 0, 0, 0, 0, 0, 0, 0, 0, 0, 0, 0, 0>>,
      <<0, 0, 0, 0, 0, 0, 0, 0, 1, 0, 0, 0, 0, 0, 0, 0>>,
      <<0, 0, 0, 0, 0, 0, 0, 0, 0, 0, 0, 0, 0, 0, 0, 32768>>,
      BigSub(RefN, BigOne), RefN, BigSub(BigZero, RefN),
      [i \in 1..16 |-> 43690], BigMax}}

\* The record of the last operation: l8 the product, c1 the carry left after
\* the last extract of secp256k1_scalar_mul_512, m6 and p4 the top limbs of
\* the two folds, overflow the argument of secp256k1_scalar_reduce, r the
\* result.
MulLast(op, l8, c1, m6, p4, overflow, r) ==
  [op |-> op, l8 |-> l8, c1 |-> c1, m6 |-> m6, p4 |-> p4, overflow |-> overflow, r |-> r]

MulInit ==
  \E a \in MulNumbers, b \in MulNumbers :
    /\ acc = [a |-> a, b |-> b]
    /\ last = MulLast("operands", <<>>, U64Zero, U64Zero, U64Zero, 0, secp256k1_scalar_zero)
    /\ nops = 0

\* fr is the call stopped before l8[7] = c0, where c1 == 0 is asserted.
Mul512At(fr) ==
  /\ last' = MulLast("mul_512", RunSeg(fr, {}).out.l8, fr.s.c1, U64Zero, U64Zero, 0,
                     secp256k1_scalar_zero)
  /\ acc' = acc
  /\ nops' = nops + 1

Mul512 ==
  /\ last.op = "operands"
  /\ Mul512At(RunSeg(secp256k1_scalar_mul_512(acc.a, acc.b), {24}))

\* f1, f2 and f3 are the call stopped after m6 = c0, after p4 = c0 + m6 and
\* before the call of secp256k1_scalar_reduce.
Reduce512At(f1, f2, f3) ==
  /\ last' = MulLast("reduce_512", last.l8, last.c1, f1.s.m6, f2.s.p4,
                     ToInt(U32(U64Add(f3.s.c, U64(f3.s.chk)))), RunSeg(f3, {}).out.r)
  /\ acc' = acc
  /\ nops' = nops + 1

Reduce512To(f1, f2) == Reduce512At(f1, f2, RunSeg(f2, {58}))
Reduce512From(f1) == Reduce512To(f1, RunSeg(f1, {42}))

Reduce512 ==
  /\ last.op = "mul_512"
  /\ Reduce512From(RunSeg(secp256k1_scalar_reduce_512(last.l8), {25}))

MulNext == Mul512 \/ Reduce512

MulSpec == MulInit /\ [][MulNext]_vars

(***************************************************************************)
(* The 128-bit helpers of both branches applied to one 128-bit register:   *)
(* each operation is computed by the native branch and, from the same      *)
(* operands, by the branch with two words.                                 *)
(***************************************************************************)
MaxU128Ops == 2

\* The words given: 0, 1, 2^32 - 1, 2^32, 2^52, AAAA... and 2^64 - 1.
U128Words ==
  {U64Zero, U64(1), Low32, H64(0, 1, 0, 0), H64(\h0010, 0, 0, 0),
   H64(\hAAAA, \hAAAA, \hAAAA, \hAAAA), U64Max}

\* The shifts the callers use, and the numbers of bits checked.
U128Shifts == {52, 64}
U128Bits == {52, 64, 112}

\* The two words that hold the 128-bit value v.
SimpleOf(v) == Simple(SubSeq(v, 5, 8), SubSeq(v, 1, 4))

\* The record of the last operation: native and simple are what the two
\* branches yield (a register, or the value of check_bits), n the shift or
\* the number of bits.
U128Last(op, n, native, simple) == [op |-> op, n |-> n, native |-> native, simple |-> simple]

U128Init ==
  \E a \in U128Words :
    /\ acc = secp256k1_u128_from_u64(a)
    /\ last = U128Last("from_u64", 0, secp256k1_u128_from_u64(a),
                       secp256k1_u128_from_u64_simple(a))
    /\ nops = 0

U128Done(op, n, native, simple) ==
  /\ nops < MaxU128Ops
  /\ acc' = native
  /\ last' = U128Last(op, n, native, simple)
  /\ nops' = nops + 1

U128Mul(a, b) ==
  U128Done("mul", 0, secp256k1_u128_mul(a, b), secp256k1_u128_mul_simple(a, b))

U128AccumMul(a, b) ==
  U128Done("accum_mul", 0, secp256k1_u128_accum_mul(acc, a, b),
           secp256k1_u128_accum_mul_simple(SimpleOf(acc), a, b))

U128AccumU64(a) ==
  U128Done("accum_u64", 0, secp256k1_u128_accum_u64(acc, a),
           secp256k1_u128_accum_u64_simple(SimpleOf(acc), a))

U128Rshift(n) ==
  U128Done("rshift", n, secp256k1_u128_rshift(acc, n),
           secp256k1_u128_rshift_simple(SimpleOf(acc), n))

U128CheckBits(n) ==
  /\ nops < MaxU128Ops
  /\ acc' = acc
  /\ last' = U128Last("check_bits", n, secp256k1_u128_check_bits(acc, n),
                      secp256k1_u128_check_bits_simple(SimpleOf(acc), n))
  /\ nops' = nops + 1

U128Next ==
  \/ \E a \in U128Words, b \in U128Words : U128Mul(a, b)
  \/ \E a \in U128Words, b \in U128Words : U128AccumMul(a, b)
  \/ \E a \in U128Words : U128AccumU64(a)
  \/ \E n \in U128Shifts : U128Rshift(n)
  \/ \E n \in U128Bits : U128CheckBits(n)

U128Spec == U128Init /\ [][U128Next]_vars


(***************************************************************************)
(* Keys: a keypair holds the 32 bytes of a secret and the 64 bytes that    *)
(* secp256k1_pubkey_save made of a point; the loading functions are        *)
(* applied to it.                                                          *)
(***************************************************************************)
MaxKeyOps == 1

\* The element that holds the number v < p.
FeOf(v) == Exec(secp256k1_fe_set_b32_limit(BigToBytes(v))).r

\* The points saved: the generator, the point (x, 11) with x^3 + 7 = 121, and
\* what secp256k1_ge_set_infinity leaves (x = 0).
KeyPoints ==
  {Ge(FeOf(RefGx), FeOf(RefGy), 0),
   Ge(FeOf(RefX121), secp256k1_fe_set_int(11), 0),
   secp256k1_ge_set_infinity}

\* What the 32 bytes after the local storage hold when a point is saved.
KeyBeyond == {ZeroBytes32, [i \in 0..31 |-> 255]}

\* What *sk holds before a call.
KeySk0 == Limbs(U64Max, U64Max, U64Max, U64Max)

\* The record of the last operation: point is the point saved in the
\* keypair, sk_null = 1 when sk is NULL, q what the call yields (a q with the
\* field stopped says the process was stopped).
KeyLast(op, point, sk_null, q) == [op |-> op, point |-> point, sk_null |-> sk_null, q |-> q]

KeyInit ==
  \E b \in ScalarInputs, g \in KeyPoints, beyond \in KeyBeyond :
    /\ acc = [i \in 0..95 |-> IF i < 32 THEN b[i]
                              ELSE Exec(secp256k1_pubkey_save(g, beyond)).buf[i - 32]]
    /\ last = KeyLast("pubkey_save", g, 0, <<>>)
    /\ nops = 0

KeyLoaded(op, sk_null, q) ==
  /\ nops < MaxKeyOps
  /\ acc' = acc
  /\ last' = KeyLast(op, last.point, sk_null, q)
  /\ nops' = nops + 1

KeypairLoad(sk_null, overrun) ==
  KeyLoaded("keypair_load", sk_null, Exec(secp256k1_keypair_load(KeySk0, sk_null, acc, overrun)))

KeypairSeckeyLoad ==
  KeyLoaded("keypair_seckey_load", 0, Exec(secp256k1_keypair_seckey_load(acc)))

XonlyPubkeyLoad(overrun) ==
  KeyLoaded("xonly_pubkey_load", 0,
            Exec(secp256k1_xonly_pubkey_load([i \in 0..63 |-> acc[32 + i]], overrun)))

KeyNext ==
  \/ \E sk_null \in {0, 1}, overrun \in Overruns : KeypairLoad(sk_null, overrun)
  \/ KeypairSeckeyLoad
  \/ \E overrun \in Overruns : XonlyPubkeyLoad(overrun)

KeySpec == KeyInit /\ [][KeyNext]_vars

(***************************************************************************)
(* Signing and verification: secp256k1_schnorrsig_sign32 writes a          *)
(* signature into a 64-byte buffer, and secp256k1_schnorrsig_verify reads  *)
(* the buffer, either after a signing call or as it was prepared.          *)
(***************************************************************************)
\* A context whose ecmult_gen_ctx.built is built.
SignCtx(built) == [ecmult_gen_ctx |-> [built |-> built], declassify |-> 0]

\* The 96 bytes of a keypair: the secret b and the point g saved.
SignKeypair(b, g) ==
  [i \in 0..95 |-> IF i < 32 THEN b[i]
                   ELSE Exec(secp256k1_pubkey_save(g, ZeroBytes32)).buf[i - 32]]

\* The generator, the public key of the secret 1.
SignG == Ge(FeOf(RefGx), FeOf(RefGy), 0)

\* The arguments of a call; x_null = 1 when the pointer x is NULL.
SignIn(built, sig64_null, msg, keypair, keypair_null, aux) ==
  [ctx |-> SignCtx(built), sig64_null |-> sig64_null, msg |-> msg, keypair |-> keypair,
   keypair_null |-> keypair_null, aux |-> aux]

SignMsg == [data |-> HashBytes1, null |-> 0, len |-> 32]
SignNoAux == [data |-> <<>>, null |-> 1]
SignValid == SignKeypair(BigToBytes(BigOne), SignG)

\* The arguments of the signing calls: the secret 1 with its public key and
\* each auxiliary randomness, then one argument changed at a time (context
\* not built, NULL signature, NULL message, NULL keypair, the secrets 0 and
\* n, the keys saved from infinity and from a point with odd y).
SignIns ==
  {SignIn(1, 0, SignMsg, SignValid, 0, aux) :
     aux \in {SignNoAux, [data |-> ZeroBytes32, null |-> 0], [data |-> HashBytes1, null |-> 0]}}
  \cup {SignIn(0, 0, SignMsg, SignValid, 0, SignNoAux),
        SignIn(1, 1, SignMsg, SignValid, 0, SignNoAux),
        SignIn(1, 0, [data |-> <<>>, null |-> 1, len |-> 32], SignValid, 0, SignNoAux),
        SignIn(1, 0, SignMsg, <<>>, 1, SignNoAux),
        SignIn(1, 0, SignMsg, SignKeypair(BigToBytes(BigZero), SignG), 0, SignNoAux),
        SignIn(1, 0, SignMsg, SignKeypair(BigToBytes(RefN), SignG), 0, SignNoAux),
        SignIn(1, 0, SignMsg, SignKeypair(BigToBytes(BigOne), secp256k1_ge_set_infinity), 0,
               SignNoAux),
        SignIn(1, 0, SignMsg,
               SignKeypair(BigToBytes(BigOne), Ge(FeOf(RefX121), secp256k1_fe_set_int(11), 0)),
               0, SignNoAux)}

\* What the signature buffer holds before a signing call.
SignBuffer == [i \in 0..63 |-> 170]

\* The signatures prepared for verification: r and s as 32 big-endian bytes
\* each, with r in {G.x, p - 1, p} and s in {1, n - 1, n}.
SigOf(r, s) == [i \in 0..63 |-> IF i < 32 THEN BigToBytes(r)[i] ELSE BigToBytes(s)[i - 32]]
SigPrepared ==
  {SigOf(RefGx, BigOne), SigOf(BigSub(RefP, BigOne), BigOne), SigOf(RefP, BigOne),
   SigOf(RefGx, BigSub(RefN, BigOne)), SigOf(RefGx, RefN), SigOf(RefP, RefN)}

\* The arguments of the verifying calls on a prepared signature: the valid
\* ones, a NULL message of length 0 and of length 32, a NULL public key, a
\* NULL signature, and the key saved from infinity.
VerifyIns ==
  {SignIn(1, 0, SignMsg, SignValid, 0, SignNoAux),
   SignIn(1, 0, [data |-> <<>>, null |-> 1, len |-> 0], SignValid, 0, SignNoAux),
   SignIn(1, 0, [data |-> <<>>, null |-> 1, len |-> 32], SignValid, 0, SignNoAux),
   SignIn(1, 0, SignMsg, <<>>, 1, SignNoAux),
   SignIn(1, 1, SignMsg, SignValid, 0, SignNoAux),
   SignIn(1, 0, SignMsg, SignKeypair(BigToBytes(BigOne), secp256k1_ge_set_infinity), 0,
          SignNoAux)}

\* What the local rj, which nothing initialises, may hold: the point a call
\* before left there, or infinity.
RjJunk == {Gej(FeOf(RefGx), FeOf(RefGy), secp256k1_fe_set_int(1), 0), secp256k1_gej_set_infinity}

\* The locals before a call: rj holds j; the others are written before they
\* are read.
SignLocals(j) ==
  [sk |-> secp256k1_scalar_zero, rj |-> j, r |-> Ge(FeZero, FeZero, 0), buf |-> ZeroBytes32,
   sha |-> [s |-> [i \in 0..7 |-> U64Zero], buf |-> [i \in 0..63 |-> 0], bytes |-> U64Zero]]

\* The call of secp256k1_schnorrsig_sign32 with the arguments in on the
\* buffer sig64, and the call of secp256k1_schnorrsig_verify.
SignCall(in, sig64, j, overrun) ==
  secp256k1_schnorrsig_sign32(in.ctx, sig64, in.sig64_null, in.msg.data, in.msg.null,
                              in.keypair, in.keypair_null, in.aux.data, in.aux.null,
                              SignLocals(j), overrun)
VerifyCall(in, sig64, j, overrun) ==
  secp256k1_schnorrsig_verify(in.ctx, sig64, in.sig64_null, in.msg.data, in.msg.null,
                              in.msg.len,
                              IF in.keypair_null = 1 THEN <<>>
                              ELSE [i \in 0..63 |-> in.keypair[32 + i]],
                              in.keypair_null, SignLocals(j), overrun)

\* The record of the last operation: prev the operation before it, in the
\* arguments, sig0 the buffer
\* before a signing call, signed what the signing call before a verification
\* yielded, q what the call yields (a q with the field stopped says the
\* process was stopped).
SignLast(op, prev, in, sig0, signed, q) ==
  [op |-> op, prev |-> prev, in |-> in, sig0 |-> sig0, signed |-> signed, q |-> q]

SignInit ==
  \/ \E in \in SignIns :
       /\ acc = SignBuffer
       /\ last = SignLast("to_sign", "", in, SignBuffer, <<>>, <<>>)
       /\ nops = 0
  \/ \E in \in VerifyIns, sig \in SigPrepared :
       /\ acc = sig
       /\ last = SignLast("to_verify", "", in, sig, <<>>, <<>>)
       /\ nops = 0

Signed(q) ==
  /\ acc' = IF "stopped" \in DOMAIN q \/ last.in.sig64_null = 1 THEN acc ELSE q.sig64
  /\ last' = SignLast("sign32", last.op, last.in, acc, <<>>, q)
  /\ nops' = nops + 1

Sign32(j, overrun) ==
  /\ last.op = "to_sign"
  /\ Signed(Exec(SignCall(last.in, acc, j, overrun)))

Verified(q) ==
  /\ acc' = acc
  /\ last' = SignLast("verify", last.op, last.in, last.sig0, last.q, q)
  /\ nops' = nops + 1

Verify(j, overrun) ==
  /\ \/ last.op = "to_verify"
     \/ last.op = "sign32" /\ "stopped" \notin DOMAIN last.q
  /\ Verified(Exec(VerifyCall(last.in, acc, j, overrun)))

SignNext ==
  \/ \E j \in RjJunk, overrun \in Overruns : Sign32(j, overrun)
  \/ \E j \in RjJunk, overrun \in Overruns : Verify(j, overrun)

SignSpec == SignInit /\ [][SignNext]_vars

(***************************************************************************)
(* Two calls at once: two threads of one process each run one call of      *)
(* secp256k1_schnorrsig_sign32 or of secp256k1_schnorrsig_verify.  The     *)
(* context, the keypair (whose last 64 bytes are the public key) and the   *)
(* message are shared; each call has its own signature buffer and its own  *)
(* stack.  A step runs the statements of one thread from one read of a     *)
(* shared object up to the next.                                           *)
(***************************************************************************)
\* The shared objects.
ConcMem == [ctx |-> SignCtx(1), keypair |-> SignValid, msg |-> SignMsg.data]

\* The two calls: which function each thread calls.
ConcKinds == {<<"sign32", "verify">>, <<"verify", "sign32">>, <<"verify", "verify">>}

\* The call of a thread on the shared objects mem, its locals holding j.
ConcCall(kind, mem, j, overrun) ==
  IF kind = "sign32"
  THEN SignCall(SignIn(1, 0, [data |-> mem.msg, null |-> 0, len |-> 32], mem.keypair, 0,
                       SignNoAux),
                SignBuffer, j, overrun)
  ELSE VerifyCall(SignIn(1, 0, [data |-> mem.msg, null |-> 0, len |-> 32], mem.keypair, 0,
                         SignNoAux),
                  SigOf(RefGx, BigOne), j, overrun)

\* The statements of a call that read a shared object, and its last one.
ConcPoints(kind, fr) == (IF kind = "sign32" THEN SignAccess ELSE VerifyAccess) \cup {fr.hi}

\* The frame fr of a thread with the pointer arguments read from mem, and
\* mem after the statements of the frame x of a thread were run.
ConcLoad(kind, fr, mem) ==
  IF kind = "sign32"
  THEN [fr EXCEPT !.s.ctx = mem.ctx, !.s.msg = mem.msg, !.s.keypair = mem.keypair]
  ELSE [fr EXCEPT !.s.ctx = mem.ctx, !.s.msg = mem.msg,
                  !.s.pubkey = [i \in 0..63 |-> mem.keypair[32 + i]]]
ConcStore(kind, x, mem) ==
  IF "out" \in DOMAIN x THEN mem
  ELSE IF kind = "sign32"
  THEN [ctx |-> x.s.ctx, keypair |-> x.s.keypair, msg |-> x.s.msg]
  ELSE [ctx |-> x.s.ctx, msg |-> x.s.msg,
        keypair |-> [i \in 0..95 |-> IF i < 32 THEN mem.keypair[i] ELSE x.s.pubkey[i - 32]]]

\* A thread: kind the function it calls, junk what its uninitialised locals
\* hold, fr the frame of the call (or [out |-> q] once it returned q), and
\* alone[j] what the same call yields when it runs with no other call, its
\* locals holding j.
ConcThread(kind, mem, j, overrun) ==
  [kind |-> kind, junk |-> j, fr |-> ConcCall(kind, mem, j, overrun),
   alone |-> [a \in RjJunk |-> Exec(ConcCall(kind, mem, a, overrun))]]

ConcInit ==
  \E kinds \in ConcKinds, j \in RjJunk, overrun \in Overruns :
    /\ acc = ConcMem
    /\ last = [t |-> [i \in 1..2 |-> ConcThread(kinds[i], ConcMem, j, overrun)],
               overrun |-> overrun, stopped |-> 0]
    /\ nops = 0

ConcDone(t) == "out" \in DOMAIN t.fr

\* Thread i has run up to x.
ConcStepped(i, x) ==
  /\ acc' = ConcStore(last.t[i].kind, x, acc)
  /\ last' = [last EXCEPT !.t[i].fr = x,
                          !.stopped = IF "out" \in DOMAIN x
                                      THEN (IF "stopped" \in DOMAIN x.out THEN 1 ELSE 0)
                                      ELSE 0]
  /\ nops' = nops + 1

\* Thread i runs up to its next read of a shared object; a stopped process
\* runs no thread.
ConcStep(i) ==
  /\ last.stopped = 0
  /\ ~ConcDone(last.t[i])
  /\ ConcStepped(i, RunSeg(ConcLoad(last.t[i].kind, last.t[i].fr, acc),
                           ConcPoints(last.t[i].kind, last.t[i].fr)))

ConcNext == \E i \in 1..2 : ConcStep(i)

ConcSpec == ConcInit /\ [][ConcNext]_vars

(***************************************************************************)
(* Properties of signing and verification.                                 *)
(***************************************************************************)
SignOp(op) == last.op = op

\* The call returned: the process was not stopped inside it.
Returned(q) == "stopped" \notin DOMAIN q

\* The call that yielded q reached the call c.
Reached(q, c) == \E i \in DOMAIN q.reached : q.reached[i] = c

\* The arguments are the valid ones: a built context, no NULL pointer but
\* perhaps aux_rand32, and the keypair of the secret 1 with the generator.
SignValidIn ==
  /\ last.in.ctx.ecmult_gen_ctx.built = 1
  /\ last.in.sig64_null = 0
  /\ last.in.msg.null = 0
  /\ last.in.keypair_null = 0
  /\ last.in.keypair = SignValid

\* C1: for a keypair whose secret d is in [1, n) and whose stored public key
\* is d*G and for every message, with or without aux randomness,
\* secp256k1_schnorrsig_sign32 returns 1 and secp256k1_schnorrsig_verify on
\* the signature produced, the same message and the keypair's public key
\* returns 1.
C1_RoundTrip ==
  /\ SignOp("sign32") /\ SignValidIn => Returned(last.q) /\ last.q.ret = 1
  /\ SignOp("verify") /\ last.prev = "sign32" /\ SignValidIn
       => Returned(last.q) /\ last.q.ret = 1

\* The signing call passed its argument checks.
SignArgsPass ==
  /\ last.in.ctx.ecmult_gen_ctx.built # 0
  /\ last.in.sig64_null = 0
  /\ last.in.msg.null = 0
  /\ last.in.keypair_null = 0

\* C2: every failing call of the signing operation returns 0 with all 64
\* bytes of the signature buffer equal to zero, whatever the kind of failure
\* (context not built, NULL message, NULL keypair, invalid keypair).
C2_FailureZeroes ==
  SignOp("sign32") /\ last.in.sig64_null = 0
    => /\ Returned(last.q)
       /\ last.q.ret \in {0, 1}
       /\ last.q.ret = 0 => acc = [i \in 0..63 |-> 0]
       /\ (~SignArgsPass \/ BytesToBig(ReadAt(last.in.keypair, 0)) = BigZero
            \/ ~BigLt(BytesToBig(ReadAt(last.in.keypair, 0)), RefN)
            \/ last.in.keypair = SignKeypair(BigToBytes(BigOne), secp256k1_ge_set_infinity))
          => last.q.ret = 0

\* C3: two calls of sign with the same context, message and keypair and with
\* aux_rand = NULL write the same 64 bytes and return the same value: the
\* output depends on nothing but the message and the keypair.
C3_Deterministic ==
  SignOp("sign32") /\ SignValidIn /\ last.in.aux.null = 1 /\ Returned(last.q)
    => \A j \in RjJunk :
         LET again == Exec(SignCall(last.in, last.sig0, j, "unnoticed"))
         IN again.sig64 = last.q.sig64 /\ again.ret = last.q.ret

\* The verifying call passed its argument checks.
VerifyArgsPass ==
  /\ last.in.sig64_null = 0
  /\ last.in.msg.null = 0 \/ last.in.msg.len = 0
  /\ last.in.keypair_null = 0

\* The numbers the two halves of the signature buffer encode.
SigR == BytesToBig(ReadAt(acc, 0))
SigS == BytesToBig(ReadAt(acc, 32))

\* C4: verify returns 0 whenever the first 32 signature bytes are at least p
\* and whenever the last 32 are at least n, before the challenge hash is
\* computed and before secp256k1_ecmult is called; when the first are below
\* p and the last below n, the call goes on to load the public key.
C4_ParseReject ==
  SignOp("verify") /\ VerifyArgsPass
    => IF BigLt(SigR, RefP) /\ BigLt(SigS, RefN)
       THEN Returned(last.q) => last.q.reached # <<>> /\ last.q.reached[1] = "xonly_pubkey_load"
       ELSE Returned(last.q) /\ last.q.ret = 0 /\ last.q.reached = <<>>

\* Verification was given r = p with s = 1 and r = G.x with s = n, and
\* r = p - 1 or s = n - 1, which it did not reject when parsing.
C4_Witness ==
  /\ SignOp("verify")
  /\ VerifyArgsPass
  /\ \/ acc = SigOf(RefP, BigOne) /\ last.q.ret = 0 /\ last.q.reached = <<>>
     \/ acc = SigOf(RefGx, RefN) /\ last.q.ret = 0 /\ last.q.reached = <<>>
  /\ Returned(Exec(VerifyCall(last.in, SigOf(BigSub(RefP, BigOne), BigOne),
                              secp256k1_gej_set_infinity, "unnoticed")))
  /\ Exec(VerifyCall(last.in, SigOf(RefGx, BigSub(RefN, BigOne)),
                     secp256k1_gej_set_infinity, "unnoticed")).reached
       = <<"xonly_pubkey_load", "challenge", "ecmult">>

\* C5: when the signature parses and the public key loads, verify returns 1
\* if and only if R' = s*G + (-e)*P is not infinity, has an even y and has
\* the x of the signature: the value returned is a function of the
\* signature, the message and the public key, the same in every execution.
C5_VerifyResult ==
  SignOp("verify") /\ Returned(last.q) /\ Reached(last.q, "challenge")
    => \A j \in RjJunk :
         Exec(VerifyCall(last.in, acc, j, "unnoticed")).ret = last.q.ret

\* C6 as stated: sign and verify return 0 when the message pointer is NULL,
\* a message of length zero with a NULL pointer included, and when the
\* signature, keypair or public-key pointer is NULL; nothing else changes.
C6_AsStated ==
  SignOp("verify") /\ (last.in.msg.null = 1 \/ last.in.sig64_null = 1 \/ last.in.keypair_null = 1)
    => Returned(last.q) /\ last.q.ret = 0 /\ last.q.reached = <<>>

\* C6: sign returns 0 and leaves the signature buffer as it was when the
\* message, signature or keypair pointer is NULL; verify returns 0, before
\* it reads anything, when the signature or public-key pointer is NULL and
\* when the message pointer is NULL with a length that is not zero; a NULL
\* message pointer with length zero is the empty message, which verify
\* accepts and goes on to parse the signature and load the public key.
C6_NullArguments ==
  /\ SignOp("sign32") /\ (last.in.msg.null = 1 \/ last.in.sig64_null = 1 \/ last.in.keypair_null = 1)
       => Returned(last.q) /\ last.q.ret = 0 /\ acc = last.sig0
  /\ SignOp("verify") /\ ~VerifyArgsPass
       => Returned(last.q) /\ last.q.ret = 0 /\ last.q.reached = <<>>
  /\ SignOp("verify") /\ VerifyArgsPass /\ last.in.msg.null = 1
       /\ BigLt(SigR, RefP) /\ BigLt(SigS, RefN) /\ Returned(last.q)
       => last.q.reached # <<>>

\* Verification was given a NULL message of length zero and went on to
\* compute the challenge; with length 32 it returned 0 at once.
C6_Witness ==
  /\ SignOp("verify")
  /\ last.in.msg.null = 1
  /\ last.in.msg.len = 0
  /\ Returned(last.q)
  /\ Reached(last.q, "challenge")
  /\ Exec(VerifyCall([last.in EXCEPT !.msg.len = 32], acc, secp256k1_gej_set_infinity,
                     "unnoticed")).ret = 0


(***************************************************************************)
(* Properties of the scalar operations, under ScalarSpec.                  *)
(***************************************************************************)
\* The operation that ran last (ScalarInit is a set_b32).
ScalarOp(op) == last.op = op

\* C7: after any sequence of set_b32, set_b32_seckey, negate, add, mul and
\* cmov that starts from a scalar made by set_b32, the four limbs hold a
\* number below n.
C7_ScalarRange == BigLt(ScalarBig(acc), RefN)

\* An addition that passed n has been reduced.
C7_Witness ==
  /\ ScalarOp("add")
  /\ last.flag = 1
  /\ BigLt(ScalarBig(acc), RefN)

\* C8: set_b32 yields the scalar b mod n and the overflow flag 1 exactly when
\* b >= n; get_b32 writes the big-endian encoding of a; and set_b32 of the
\* bytes get_b32 wrote for a < n yields a with the overflow flag 0.
C8_ByteRoundTrip ==
  /\ ScalarOp("set_b32") =>
       /\ ScalarBig(acc) = BigMod1(BytesToBig(last.bin), RefN)
       /\ last.flag = 1 <=> ~BigLt(BytesToBig(last.bin), RefN)
  /\ ScalarOp("get_b32") /\ BigLt(ScalarBig(last.x), RefN) =>
       /\ last.bin = BigToBytes(ScalarBig(last.x))
       /\ Exec(secp256k1_scalar_set_b32(last.bin)) = [r |-> last.x, overflow |-> 0]

\* The bytes of n - 1 were decoded and written again.
C8_Witness ==
  /\ ScalarOp("get_b32")
  /\ ScalarBig(last.x) = BigSub(RefN, BigOne)
  /\ BytesToBig(last.bin) = BigSub(RefN, BigOne)

\* C9: secp256k1_scalar_mul of a, b < n yields a * b mod n; it yields the
\* same for b, a, and mul(mul(a, b), c) = mul(a, mul(b, c)) for c < n.
C9_MulExact ==
  ScalarOp("mul") =>
    /\ ScalarBig(acc) = BigMulMod(ScalarBig(last.x), ScalarBig(last.y), RefN)
    /\ acc = Exec(secp256k1_scalar_mul(last.y, last.x)).r
    /\ \A c \in ScalarOperands :
         Exec(secp256k1_scalar_mul(acc, c)).r
           = Exec(secp256k1_scalar_mul(last.x, Exec(secp256k1_scalar_mul(last.y, c)).r)).r

\* n - 1 times n - 1 is 1.
C9_Witness ==
  /\ ScalarOp("mul")
  /\ ScalarBig(last.x) = BigSub(RefN, BigOne)
  /\ last.y = last.x
  /\ acc = secp256k1_scalar_one

\* C10: secp256k1_scalar_set_b32_seckey returns 1 exactly when the 32
\* big-endian bytes encode a number in [1, n - 1].
C10_SeckeyRange ==
  ScalarOp("set_b32_seckey") =>
    (last.flag = 1 <=>
       BytesToBig(last.bin) # BigZero /\ BigLt(BytesToBig(last.bin), RefN))

\* n + 1, which reduces to 1, is refused.
C10_Witness ==
  /\ ScalarOp("set_b32_seckey")
  /\ BytesToBig(last.bin) = SubSeq(BigAddC(RefN, BigOne, 0), 1, 16)
  /\ acc = secp256k1_scalar_one
  /\ last.flag = 0

(***************************************************************************)
(* Properties of the field operations, under FieldSpec.                    *)
(***************************************************************************)
\* The operation that ran last.
FieldOp(op) == nops > 0 /\ last.op = op

\* C11: secp256k1_fe_set_b32_limit returns 0 exactly when the 32 big-endian
\* bytes encode a number >= p; the bytes secp256k1_fe_get_b32 writes for a
\* fully normalised element are the big-endian encoding of its value; and
\* for an element whose limbs add up to a number below p, decoding with
\* secp256k1_fe_set_b32_limit the bytes written for the output of
\* secp256k1_fe_normalize_var succeeds and gives back that output, whose
\* value is the element's.
C11_ByteRoundTrip ==
  /\ last.op = "set_b32_limit" =>
       (last.flag = 0 <=> ~BigLt(BytesToBig(last.bin), RefP))
  /\ last.op = "set_b32_limit" /\ last.flag = 1 =>
       FeCanonical(acc) /\ SubSeq(FeWide(acc), 1, 16) = BytesToBig(last.bin)
  /\ last.op = "get_b32" /\ FeCanonical(last.x) =>
       last.bin = BigToBytes(SubSeq(FeWide(last.x), 1, 16))
  /\ FieldOp("normalize_var") /\ FeBelowP(last.x) =>
       LET q == Exec(secp256k1_fe_set_b32_limit(Exec(secp256k1_fe_get_b32(acc)).r))
       IN /\ q.ret = 1
          /\ q.r = acc
          /\ SubSeq(FeWide(acc), 1, 16) = SubSeq(FeWide(last.x), 1, 16)

\* The decoded Gx is normalised, written and decoded again.
C11_Witness ==
  /\ FieldOp("normalize_var")
  /\ SubSeq(FeWide(last.x), 1, 16) = RefGx
  /\ Exec(secp256k1_fe_set_b32_limit(Exec(secp256k1_fe_get_b32(acc)).r)).ret = 1

\* C12: secp256k1_fe_normalize_var maps an element whose limbs 0..3 are
\* below 2^52 and whose limb 4 is below 2^48 to the canonical representation:
\* limbs in range, value below p, and congruent modulo p to the input.
C12_NormalizeCanonical ==
  FieldOp("normalize_var") /\ FeLimbsFit(last.x, 1) =>
    FeCanonical(acc) /\ FeBig(acc) = FeBig(last.x)

\* The limbs secp256k1_fe_mul and secp256k1_fe_sqr accept: limbs 0..3 below
\* 2^56 and limb 4 below 2^52.
FeMulInput(a) == (\A i \in 0..3 : a[i][4] < 256) /\ a[4][4] < 16

\* Limbs 0..3 at most 2^52 - 1 and limb 4 at most 2^48.
FeWeak(a) ==
  /\ \A i \in 0..3 : a[i][4] < 16
  /\ a[4][4] = 0 \/ a[4] = <<0, 0, 0, 1>>

C14_Inverse ==
  FieldOp("inv_var") /\ FeBig(last.x) # BigZero =>
    BigMulMod(FeBig(last.x), FeBig(acc), RefP) = BigOne

\* C15: secp256k1_fe_sqrt returns 1 exactly when the element is a square
\* modulo p (0 included); the result is a^((p + 1) / 4), whose square is a
\* when 1 is returned and -a when 0 is returned, a then having no root.
C15_Sqrt ==
  FieldOp("sqrt") =>
    LET a == FeBig(last.x)
        r == FeBig(acc)
    IN /\ r \in RefRoots
       /\ last.flag = 1 <=> RefIsSquare(a)
       /\ last.flag = 1 => BigMulMod(r, r, RefP) = a
       /\ last.flag = 0 =>
            RefIsNonSquare(a) /\ BigMulMod(r, r, RefP) = BigSub(RefP, a)

\* The root of the generator's x coordinate, a square, is taken.
C15_Witness ==
  /\ FieldOp("sqrt")
  /\ FeBig(last.x) = RefGx
  /\ last.flag = 1
  /\ BigMulMod(FeBig(acc), FeBig(acc), RefP) = RefGx

\* x^3 + 7 modulo p.
RefCurveRhs(x) ==
  BigAddMod(BigMulMod(BigMulMod(x, x, RefP), x, RefP),
            <<7, 0, 0, 0, 0, 0, 0, 0, 0, 0, 0, 0, 0, 0, 0, 0>>, RefP)

\* C16: secp256k1_ge_set_xo_var returns 0 exactly when x^3 + 7 has no square
\* root modulo p; when it returns 1 the point is not the point at infinity,
\* has the given x, satisfies y^2 = x^3 + 7, and the parity of its y, as a
\* number below p, is odd.
C16_SetXo ==
  FieldOp("set_xo_var") =>
    LET x == FeBig(last.x)
        y == FeBig(acc)
    IN /\ last.flag = 0 <=> RefIsNonSquare(RefCurveRhs(x))
       /\ last.flag = 1 =>
            /\ last.infinity = 0
            /\ last.y = last.x
            /\ BigMulMod(y, y, RefP) = RefCurveRhs(x)
            /\ y[1] % 2 = last.arg

HashOp(op) == nops > 0 /\ last.op = op

\* C17: for each of the tags BIP0340/aux, BIP0340/nonce and
\* BIP0340/challenge, the initialiser with the fixed midstate leaves the same
\* eight words and the same byte count, 64, with nothing pending in the
\* buffer, as secp256k1_sha256_initialize_tagged with the tag; and after the
\* same writes both objects keep the same words and count and finalize to
\* the same digest.
C17_TaggedFastpath ==
  /\ acc.hash.s = acc.twin.s
  /\ acc.hash.bytes = acc.twin.bytes
  /\ last.op = "initialize_tagged" => acc.twin.bytes = U64(64)
  /\ last.op = "finalize" => last.out = last.out2

\* Both objects, initialised for the tag BIP0340/challenge, have taken the
\* same 32 bytes and were finalized.
C17_Witness ==
  /\ HashOp("finalize")
  /\ last.tag = 3
  /\ Len(last.msg) = 32
  /\ last.out = last.out2

\* The eight words a claim lists, from their 16-bit halves.
Words8(h) == [i \in 0..7 |-> W32(h[2 * i + 1], h[2 * i + 2])]

\* C18, as stated: the midstate installed for the tag BIP0340/aux is
\* 46615B35 F4BFBFF7 9F8DC671 83627AB3 60217180 57358661 21A29E54 68B07B4C and
\* the one installed for BIP0340/challenge is 9CECBA11 23925381 11679112
\* D1627E0F 97C87550 003CC765 90F61164 33E9B66A, each with byte count 64.
C18_AsStated ==
  last.op = "initialize_tagged" =>
    /\ acc.twin.bytes = U64(64)
    /\ last.tag = 1 =>
         acc.twin.s = Words8(<<\h4661, \h5B35, \hF4BF, \hBFF7, \h9F8D, \hC671, \h8362, \h7AB3,
                               \h6021, \h7180, \h5735, \h8661, \h21A2, \h9E54, \h68B0, \h7B4C>>)
    /\ last.tag = 3 =>
         acc.twin.s = Words8(<<\h9CEC, \hBA11, \h2392, \h5381, \h1167, \h9112, \hD162, \h7E0F,
                               \h97C8, \h7550, \h003C, \hC765, \h90F6, \h1164, \h33E9, \hB66A>>)

\* C18: the midstate installed for the tag BIP0340/aux is 24DD3219 4EBA7E70
\* CA0FABB9 0FA3166D 3AFBE4B1 4C44DF97 4AAC2739 249E850A, the words 46615B35
\* F4BFBFF7 9F8DC671 83627AB3 60217180 57358661 21A29E54 68B07B4C are the
\* midstate installed for BIP0340/nonce, and the one installed for
\* BIP0340/challenge is 9CECBA11 23925381 11679112 D1627E0F 97C87550 003CC765
\* 90F61164 33E9B66A, each with byte count 64.
C18_Midstates ==
  last.op = "initialize_tagged" =>
    /\ acc.twin.bytes = U64(64)
    /\ last.tag = 1 =>
         acc.twin.s = Words8(<<\h24DD, \h3219, \h4EBA, \h7E70, \hCA0F, \hABB9, \h0FA3, \h166D,
                               \h3AFB, \hE4B1, \h4C44, \hDF97, \h4AAC, \h2739, \h249E, \h850A>>)
    /\ last.tag = 2 =>
         acc.twin.s = Words8(<<\h4661, \h5B35, \hF4BF, \hBFF7, \h9F8D, \hC671, \h8362, \h7AB3,
                               \h6021, \h7180, \h5735, \h8661, \h21A2, \h9E54, \h68B0, \h7B4C>>)
    /\ last.tag = 3 =>
         acc.twin.s = Words8(<<\h9CEC, \hBA11, \h2392, \h5381, \h1167, \h9112, \hD162, \h7E0F,
                               \h97C8, \h7550, \h003C, \hC765, \h90F6, \h1164, \h33E9, \hB66A>>)

\* The objects were initialised for the tag BIP0340/aux: the fixed midstate
\* is in twin, and hash holds the same words.
C18_Witness ==
  /\ last.op = "initialize_tagged"
  /\ last.tag = 1
  /\ acc.twin.s[0] = W32(\h24DD, \h3219)
  /\ acc.hash.s = acc.twin.s

\* The nonce the call recorded in last yields when data is d instead.
NonceWith(d) ==
  Exec(NonceCall(last.call.key, last.call.m, last.call.a, d,
                 [sha |-> last.junk, masked_key |-> ZeroBytes32])).nonce32

\* mask is the tagged hash with tag BIP0340/aux of 32 zero bytes, and the
\* nonce function yields with data = NULL what it yields with 32 zero bytes.
ZeroMaskIs(mask) ==
  /\ ZERO_MASK = mask
  /\ HashOp("finalize") /\ last.tag = 1 /\ last.msg = [i \in 1..32 |-> 0] => last.out = mask
  /\ HashOp("nonce") /\ last.call.d.null = 1 =>
       last.out = NonceWith([data |-> ZeroBytes32, null |-> 0])

\* C19, as stated: ZERO_MASK is 54 F1 69 CF C9 E2 E5 72 74 80 44 41 90 BA 25
\* C4 88 F4 61 C7 0B 5E A5 DC AA F7 AF 69 27 0A A5 14, the tagged hash with
\* tag BIP0340/aux of 32 zero bytes, and the nonce derived with aux_rand =
\* NULL is the nonce derived with aux_rand = 32 zero bytes.
C19_AsStated ==
  ZeroMaskIs(Bytes(<<\h54, \hF1, \h69, \hCF, \hC9, \hE2, \hE5, \h72,
                     \h74, \h80, \h44, \h41, \h90, \hBA, \h25, \hC4,
                     \h88, \hF4, \h61, \hC7, \h0B, \h5E, \hA5, \hDC,
                     \hAA, \hF7, \hAF, \h69, \h27, \h0A, \hA5, \h14>>))

\* C19: ZERO_MASK is 54 F1 69 CF C9 E2 E5 72 74 80 44 1F 90 BA 25 C4 88 F4
\* 61 C7 0B 5E A5 DC AA F7 AF 69 27 0A A5 14 (the twelfth byte is 1F), the
\* tagged hash with tag BIP0340/aux of 32 zero bytes, and the nonce derived
\* with aux_rand = NULL is the nonce derived with aux_rand = 32 zero bytes.
C19_ZeroMask ==
  ZeroMaskIs(Bytes(<<\h54, \hF1, \h69, \hCF, \hC9, \hE2, \hE5, \h72,
                     \h74, \h80, \h44, \h1F, \h90, \hBA, \h25, \hC4,
                     \h88, \hF4, \h61, \hC7, \h0B, \h5E, \hA5, \hDC,
                     \hAA, \hF7, \hAF, \h69, \h27, \h0A, \hA5, \h14>>))

\* The nonce function was given data = NULL and a key, and has derived a
\* nonce.
C19_Witness ==
  /\ HashOp("nonce")
  /\ last.call.d.null = 1
  /\ last.call.key = HashBytes1
  /\ last.out2 = 1
  /\ last.out # ZeroBytes32
  /\ last.out = NonceWith([data |-> ZeroBytes32, null |-> 0])
  /\ last.out # NonceWith([data |-> HashBytes1, null |-> 0])

KeyOp(op) == nops > 0 /\ last.op = op

\* The secret a keypair holds, as a number.
KeySecret == BytesToBig([i \in 0..31 |-> acc[i]])

\* C20: secp256k1_keypair_load returns 0 exactly when the secret is 0 or at
\* least n or the stored public key is invalid (its x is zero); when it
\* returns 0, sk is 1 and pk is the generator G; when it returns 1, sk is the
\* stored secret and pk the stored point.
C20_KeypairLoad ==
  KeyOp("keypair_load") /\ last.sk_null = 0 =>
    /\ "stopped" \notin DOMAIN last.q
    /\ last.q.ret = 0 <=>
         \/ KeySecret = BigZero
         \/ ~BigLt(KeySecret, RefN)
         \/ FeBig(last.point.x) = BigZero
    /\ last.q.ret = 0 =>
         /\ last.q.sk = secp256k1_scalar_one
         /\ FeBig(last.q.pk.x) = RefGx
         /\ FeBig(last.q.pk.y) = RefGy
         /\ last.q.pk.infinity = 0
    /\ last.q.ret = 1 =>
         /\ ScalarBig(last.q.sk) = KeySecret
         /\ FeBig(last.q.pk.x) = FeBig(last.point.x)
         /\ FeBig(last.q.pk.y) = FeBig(last.point.y)
         /\ last.q.pk.infinity = 0
(***************************************************************************)
(* Properties of the point encoding, of the constants and of the parts of  *)
(* signing.                                                                *)
(***************************************************************************)
\* C21: the 64-byte encoding of a point round-trips: for a point P that is
\* not infinity, with normalised coordinates below p, decoding the bytes
\* that secp256k1_ge_to_bytes wrote yields a point that is not infinity and
\* whose x and y limbs are those of P, with x in the first 32 bytes and y in
\* the last 32.
C21_BytesRoundTrip ==
  KeyOp("xonly_pubkey_load") /\ last.point.infinity = 0 =>
    /\ "stopped" \notin DOMAIN last.q
    /\ last.q.ge.infinity = 0
    /\ last.q.ge.x = last.point.x
    /\ last.q.ge.y = last.point.y
    /\ BytesToBig(ReadAt(acc, 32)) = FeBig(last.point.x)
    /\ BytesToBig(ReadAt(acc, 64)) = FeBig(last.point.y)

\* C22: secp256k1_ge_const_g, the point a failed secp256k1_keypair_load
\* installs, read as five limbs of radix 2^52, is the point that is not
\* infinity with X = 79BE667E ... 16F81798 and Y = 483ADA77 ... FB10D4B8;
\* its limbs 0..3 are below 2^52 and limb 4 below 2^48, and it satisfies
\* y^2 = x^3 + 7 modulo p.
C22_Generator ==
  KeyOp("keypair_load") /\ "stopped" \notin DOMAIN last.q /\ last.q.ret = 0 =>
    /\ last.q.pk = secp256k1_ge_const_g
    /\ last.q.pk.infinity = 0
    /\ FeCanonical(last.q.pk.x) /\ FeCanonical(last.q.pk.y)
    /\ SubSeq(FeWide(last.q.pk.x), 1, 16) = RefGx
    /\ SubSeq(FeWide(last.q.pk.y), 1, 16) = RefGy
    /\ BigMulMod(FeBig(last.q.pk.y), FeBig(last.q.pk.y), RefP) = RefCurveRhs(FeBig(last.q.pk.x))

\* The locals of a signing call that hold secrets are all zero: sk, k,
\* seckey, nonce32 and rj, and the masked_key and sha of the nonce function.
SecretsZero(q) ==
  /\ q.sk = secp256k1_scalar_zero
  /\ q.k = secp256k1_scalar_zero
  /\ q.seckey = ZeroBytes32
  /\ q.nonce32 = ZeroBytes32
  /\ q.rj = Gej(FeZero, FeZero, FeZero, 0)
  /\ q.nonce_locals.masked_key = ZeroBytes32
  /\ q.nonce_locals.sha = secp256k1_sha256_clear

\* The locals of a signing call are as they were before the call, when rj
\* held j: nothing was written to them.
SecretsUnwritten(q, j) ==
  /\ q.sk = SignLocals(j).sk
  /\ q.k = SignLocals(j).sk
  /\ q.seckey = SignLocals(j).buf
  /\ q.nonce32 = ZeroBytes32
  /\ q.rj = j
  /\ q.nonce_locals = [sha |-> SignLocals(j).sha, masked_key |-> SignLocals(j).buf]

\* C23: at every return of the signing operation, with success or failure,
\* the locals that held secret material (sk, k, seckey, nonce32, rj, and in
\* the nonce function masked_key and the SHA-256 state) are all zero, or
\* were never written: a return at an argument check comes before any of
\* them is written.
C23_Zeroised ==
  SignOp("sign32") /\ Returned(last.q) =>
    IF SignArgsPass THEN SecretsZero(last.q)
    ELSE last.q.ret = 0 /\ \E j \in RjJunk : SecretsUnwritten(last.q, j)

\* A signing call returned 1, with a signature that is not zero, and one
\* returned 0 after it loaded the keypair.
C23_Witness ==
  /\ SignOp("sign32")
  /\ SignArgsPass
  /\ Returned(last.q)
  /\ \/ last.q.ret = 1 /\ ReadAt(acc, 32) # ZeroBytes32
     \/ last.q.ret = 0 /\ BytesToBig(ReadAt(last.in.keypair, 0)) = RefN
  /\ SecretsZero(last.q)


(***************************************************************************)
(* C24: two concurrent calls that share the context, the keypair and the   *)
(* message.                                                                *)
(***************************************************************************)
ConcOp == "t" \in DOMAIN last

\* No call writes the context, the keypair, the public key or the message.
ConcReadOnly == ConcOp => acc = ConcMem

\* A call that returned yields what the same call yields alone when the
\* uninitialised locals of both runs hold the same.
ConcSameJunk ==
  ConcOp =>
    \A i \in 1..2 :
      ConcDone(last.t[i]) => last.t[i].fr.out = last.t[i].alone[last.t[i].junk]

C25_StubsAbort ==
  /\ SignOp("sign32") /\ SignArgsPass => ~Returned(last.q)
  /\ SignOp("verify") /\ Returned(last.q) => ~Reached(last.q, "ecmult")

(***************************************************************************)
(* C26: the even-y rule of signing, for a call that returned 1.  The       *)
(* numbers are computed from the arguments as the claim says and compared  *)
(* with what the call wrote.                                               *)
(***************************************************************************)
BigOdd(a) == a[1] % 2 = 1

\* The secret d of the keypair, and d' = n - d when the y of the loaded
\* public key pk is odd, d otherwise.
SignSecret == BytesToBig(ReadAt(last.in.keypair, 0))
SignSecretUsed(pk) == IF BigOdd(FeBig(pk.y)) THEN BigSub(RefN, SignSecret) ELSE SignSecret

\* The nonce k: the 32 bytes the nonce function derives from d', the x of pk,
\* the message and the auxiliary randomness, reduced modulo n.
SignNonce(pk) ==
  BigMod1(BytesToBig(Exec(nonce_function_bip340(ZeroBytes32, last.in.msg.data, 32,
                                                  BigToBytes(SignSecretUsed(pk)),
                                                  BigToBytes(FeBig(pk.x)), bip340_algo, 0, 13,
                                                  last.in.aux.data, last.in.aux.null,
                                                  [sha |-> SignLocals(secp256k1_gej_set_infinity).sha,
                                                   masked_key |-> ZeroBytes32])).nonce32),
          RefN)

\* k' = n - k when the y of R is odd, k otherwise.
SignNonceUsed(pk, r) == IF BigOdd(FeBig(r.y)) THEN BigSub(RefN, SignNonce(pk)) ELSE SignNonce(pk)

\* The challenge e of the signature bytes sig64.
SignChallenge(pk, sig64) ==
  ScalarBig(Exec(secp256k1_schnorrsig_challenge(ReadAt(sig64, 0), last.in.msg.data, 32,
                                                BigToBytes(FeBig(pk.x)),
                                                [sha |-> SignLocals(secp256k1_gej_set_infinity).sha,
                                                 buf |-> ZeroBytes32])).e)

\* The response (k' + e*d') mod n is in sig[32..64].
SignResponse(q) ==
  BytesToBig(ReadAt(q.sig64, 32)) =
    BigAddMod(SignNonceUsed(q.pk, q.r),
              BigMulMod(SignChallenge(q.pk, q.sig64), SignSecretUsed(q.pk), RefN), RefN)

\* What R = k*G implies for the point r the call converted: it is not the
\* point at infinity, it is on the curve, and it is G only when k = 1, G
\* being of order n.
SignNoncePoint(q) ==
  /\ q.r.infinity = 0
  /\ BigMulMod(FeBig(q.r.y), FeBig(q.r.y), RefP) = RefCurveRhs(FeBig(q.r.x))
  /\ (FeBig(q.r.x) = RefGx /\ FeBig(q.r.y) = RefGy) => SignNonce(q.pk) = BigOne

\* C26: in a signing call that returns 1 the response written to sig[32..64]
\* is (k' + e*d') mod n, where d' is n - d exactly when the y of the loaded
\* public key is odd and k' is n - k exactly when the y of R = k*G is odd,
\* and sig[0..32] is the big-endian x of R.
C26_EvenY ==
  SignOp("sign32") /\ Returned(last.q) /\ last.q.ret = 1 =>
    /\ SignNoncePoint(last.q)
    /\ ReadAt(last.q.sig64, 0) = BigToBytes(FeBig(last.q.r.x))
    /\ SignResponse(last.q)

(***************************************************************************)
(* C27: SHA-256 streaming.  The reference cuts the bytes written into      *)
(* blocks of 64 and applies the transform to each in turn.                 *)
(***************************************************************************)
\* Block i of the bytes msg, and the words after the blocks i..(n - 1).
ShaBlock(msg, i) == [j \in 0..63 |-> msg[64 * i + j + 1]]
RECURSIVE ShaBlocks(_, _, _, _)
ShaBlocks(s, msg, i, n) ==
  IF i >= n THEN s
  ELSE ShaBlocks(Exec(secp256k1_sha256_transform(s, ShaBlock(msg, i))).s, msg, i + 1, n)

\* msg with the padding: the byte 0x80, zero bytes up to 56 modulo 64, and
\* the number of bits of msg as eight big-endian bytes (msg is shorter than
\* 8192 bytes).
ShaPadded(msg) ==
  msg \o <<128>> \o [i \in 1..((119 - (Len(msg) % 64)) % 64) |-> 0]
      \o <<0, 0, 0, 0, 0, 0, (8 * Len(msg)) \div 256, (8 * Len(msg)) % 256>>

\* The eight words s as 32 big-endian bytes.
ShaWordsBytes(s) == [j \in 0..31 |-> secp256k1_write_be32(s[j \div 4])[(j % 4) + 1]]

\* C27: after the writes that follow an initialise, the count is the number
\* of bytes written, the words are those after the transform of each full
\* block of the bytes written and of nothing else, and the buffer holds the
\* bytes after the last full block, whatever the chunks; finalize processes
\* the padded bytes, a multiple of 64, writes the words big-endian and zeroes
\* them.
C27_Streaming ==
  /\ last.op \in {"initialize", "write"} =>
       /\ acc.bytes = U64(Len(last.msg))
       /\ acc.s = ShaBlocks(secp256k1_sha256_initialize.s, last.msg, 0, Len(last.msg) \div 64)
       /\ \A i \in 0..((Len(last.msg) % 64) - 1) :
            acc.buf[i] = last.msg[64 * (Len(last.msg) \div 64) + i + 1]
  /\ last.op = "finalize" =>
       /\ Len(ShaPadded(last.msg)) % 64 = 0
       /\ acc.bytes = U64(Len(ShaPadded(last.msg)))
       /\ last.out = ShaWordsBytes(ShaBlocks(secp256k1_sha256_initialize.s, ShaPadded(last.msg),
                                             0, Len(ShaPadded(last.msg)) \div 64))
       /\ acc.s = [i \in 0..7 |-> U64Zero]

\* A digest of 65 bytes written as one byte and then 64: the second write
\* fills the block, transforms it and leaves one byte in the buffer.
C27_Witness ==
  /\ last.op = "finalize"
  /\ nops = 2
  /\ Len(last.msg) = 65
  /\ last.msg[1] = 97
  /\ last.out # ZeroBytes32
  /\ acc.s = [i \in 0..7 |-> U64Zero]

(***************************************************************************)
(* C28: the bounds asserted in the scalar multiplication.                  *)
(***************************************************************************)
\* The number the limbs l[0..(n - 1)] hold, as 4 * n digits.
RECURSIVE LimbDigits(_, _)
LimbDigits(l, n) == IF n = 0 THEN <<>> ELSE LimbDigits(l, n - 1) \o l[n - 1]

\* 2^256 - n as SECP256K1_N_C_0 + SECP256K1_N_C_1 * 2^64 + SECP256K1_N_C_2 *
\* 2^128.
ScalarNC == SECP256K1_N_C_0 \o SECP256K1_N_C_1 \o U64(SECP256K1_N_C_2) \o U64Zero

\* C28: for operands of any four limbs the product leaves no carry (c1 = 0
\* after the last extract), the first fold leaves m6 <= 1, the second
\* p4 <= 2, secp256k1_scalar_reduce is called with an overflow of 0 or 1,
\* and the N_C limbs add up to 2^256 - n.
C28_ReducePhases ==
  /\ ScalarNC = BigSub(BigZero, RefN)
  /\ last.op \in {"mul_512", "reduce_512"} => last.c1 = U64Zero
  /\ last.op = "reduce_512" =>
       /\ last.m6 \in {U64(0), U64(1)}
       /\ last.p4 \in {U64(0), U64(1), U64(2)}
       /\ last.overflow \in {0, 1}

\* The product of 2^256 - 1 with itself was reduced, with m6 = 1.
C28_Witness ==
  /\ last.op = "reduce_512"
  /\ acc.a = BigScalar(BigMax) /\ acc.b = BigScalar(BigMax)
  /\ last.c1 = U64Zero
  /\ last.m6 = U64(1)
  /\ last.overflow \in {0, 1}

\* The bytes of the secp256k1_ge_storage object of the point a: eight for
\* each of its words.
GeStorageBytes(a) == 8 * Cardinality(DOMAIN Exec(secp256k1_ge_to_storage(a)).r)

\* C29: the byte codec of group elements stays inside the storage object:
\* the object has at least the 64 bytes copied, the 64 bytes
\* secp256k1_ge_to_bytes writes are read from the object alone, whatever the
\* memory after it holds, and the 64 bytes secp256k1_ge_from_bytes copies
\* into the object overrun nothing, so the call returns.
C29_CodecInBounds ==
  /\ GeStorageBytes(last.point) >= 64
  /\ \A beyond \in KeyBeyond :
       [i \in 0..63 |-> acc[32 + i]] = Exec(secp256k1_ge_to_bytes(last.point, beyond)).buf
  /\ KeyOp("xonly_pubkey_load") => "stopped" \notin DOMAIN last.q

(***************************************************************************)
(* C30: the two branches of the 128-bit helpers.                           *)
(***************************************************************************)
\* The operation op yields the same in both branches.
U128Agree(op) ==
  last.op = op =>
    IF op = "check_bits" THEN last.simple = last.native
    ELSE last.simple = SimpleOf(last.native)

\* C30: the helpers on two words agree with the native ones: the product,
\* the two accumulations modulo 2^128, the shifts by 52 and 64, and
\* check_bits, which must hold exactly when the value is below 2^n.
C30_FallbackAgrees ==
  /\ U128Agree("from_u64")
  /\ U128Agree("mul")
  /\ U128Agree("accum_mul")
  /\ U128Agree("accum_u64")
  /\ U128Agree("rshift")
  /\ U128Agree("check_bits")

=============================================================================
